---- MODULE Spec2Model ----
(***************************************************************************)
(* Live scoring and substitution reconciliation of the FPL live table      *)
(* (class FPLLiveTable): calculateProvisionalBonus, calculateLocalAutoSubs,*)
(* calculateLiveInfo and getPlayerDetails, applied to the snapshot that    *)
(* loadLeague stores (players, fixtures, liveData, one manager's picks);   *)
(* then the league table: calculateScores, calculatePositionChanges and    *)
(* sortScores over the managers that loadLeague and refresh fetch.         *)
(*                                                                         *)
(* A JavaScript value that may be undefined is a sequence of length 0      *)
(* (undefined) or 1 (the value).                                           *)
(***************************************************************************)
EXTENDS Integers, Sequences, FiniteSets, TLC

VARIABLES
    players,          \* this.players: element id -> [element_type, team]
    fixtures,         \* this.fixtures: list of fixtures of all gameweeks
    liveData,         \* this.liveData.elements: element id -> stats
    currentGameweek,  \* this.currentGameweek
    picks,            \* managerData.get(entry).picks of the manager shown
    autoSubs,         \* value returned by the last calculateLocalAutoSubs(picks)
    provisionalBonus, \* value returned by the last calculateProvisionalBonus()
    liveInfo,         \* value returned by the last calculateLiveInfo(picks)
    details,          \* value returned by the last getPlayerDetails(picks)
    pc,               \* "constructed", "loaded", "scored", "detailed", "shown"
    standings,        \* this.standings.standings.results: list of [entry, total]
    managerData,      \* this.managerData: entry -> [history, picks]
    gameweekDates,    \* this.gameweekDates: gameweek -> <<year, month>>
    currentMonth,     \* this.currentMonth: key <<year, month>> of the period
    currentView,      \* this.currentView: "monthly" or "gameweek"
    expandedRows,     \* this.expandedRows: entries whose row is expanded
    fetches,          \* the fetchManagerData calls in flight
    scores,           \* the rows renderLeaderboard rendered last
    leagueId,         \* this.leagueId
    section,          \* the section displayed: "setup" or "leaderboard"
    refreshInterval,  \* this.refreshInterval: a timer, or 0 for null
    timers,           \* the interval timers set and not cleared
    calls,            \* the loadLeague and refresh invocations in flight
    started,          \* the number of invocations started so far
    done,             \* the invocations that returned
    eventStatus,      \* the gameweek the event-status endpoint reports now
    cache,            \* this.cache: key -> [data, timestamp]
    clock,            \* Date.now()
    requests,         \* the fetchAPI requests in flight
    returned,         \* what the fetchWithCache call that returned last gave
    unread            \* the keys refresh deleted that were not read since

\* the state of the league table, left alone by the one-manager families
leagueVars == <<standings, managerData, gameweekDates, currentMonth,
                currentView, expandedRows, fetches, scores>>

\* the state of the session: invocations, timers and the request cache,
\* left alone by the families of one completed load
sessionVars == <<leagueId, section, refreshInterval, timers, calls, started,
                 done, eventStatus, cache, clock, requests, returned, unread>>

vars == <<players, fixtures, liveData, currentGameweek, picks,
          autoSubs, provisionalBonus, liveInfo, details, pc,
          standings, managerData, gameweekDates, currentMonth,
          currentView, expandedRows, fetches, scores,
          leagueId, section, refreshInterval, timers, calls, started,
          done, eventStatus, cache, clock, requests, returned, unread>>

----------------------------------------------------------------------------
(* Bounds of the explored snapshots *)

\* at most this many starters have 0 minutes in a finished fixture
MaxNeedy == 2
\* at most this many players of the fixture of the bonus scenario
MaxFixturePlayers == 6

----------------------------------------------------------------------------
(* Generic helpers *)

Undefined == << >>
Some(x) == << x >>
IsDefined(o) == Len(o) > 0

MinOf(S) == CHOOSE x \in S : \A y \in S : x <= y

\* F applied to the value of v, which is evaluated once
ApplyTo(v, F(_)) == CHOOSE r \in { F(x) : x \in {v} } : TRUE

RECURSIVE SumOver(_, _)
SumOver(f, S) ==
    IF S = {} THEN 0
    ELSE LET x == CHOOSE y \in S : TRUE IN f[x] + SumOver(f, S \ {x})

\* element_type of the bootstrap data
RoleGK == 1
RoleDEF == 2
RoleMID == 3
RoleFWD == 4
OutfieldRoles == {RoleDEF, RoleMID, RoleFWD}

\* picks.picks.slice(0, 11) and picks.picks.slice(11)
StartingSize == 11

\* element ids of the bootstrap data are 1..MaxElementId
MaxElementId == 17

----------------------------------------------------------------------------
(* Lookups shared by the calculations *)

\* this.players.get(id): defined or not
HasPlayer(e) == IsDefined(players) /\ e \in DOMAIN players[1]
PlayerOf(e) == players[1][e]

\* this.liveData.elements.find(e => e.id === id)
HasLive(e) == IsDefined(liveData) /\ e \in DOMAIN liveData[1]

\* liveElement?.stats?.minutes || 0
MinutesOf(e) == IF HasLive(e) THEN liveData[1][e].minutes ELSE 0
\* liveElement?.stats?.total_points || 0
TotalPointsOf(e) == IF HasLive(e) THEN liveData[1][e].total_points ELSE 0
\* liveElement?.stats?.bonus || 0
ApiBonusOf(e) == IF HasLive(e) THEN liveData[1][e].bonus ELSE 0
\* element.stats?.bps || 0
BpsOf(e) == IF HasLive(e) THEN liveData[1][e].bps ELSE 0

\* this.fixtures.find(f => f.event === this.currentGameweek &&
\*                         (f.team_h === team || f.team_a === team))
TeamFixture(team) ==
    LET idx == { k \in 1..Len(fixtures[1]) :
                   /\ fixtures[1][k].event = currentGameweek
                   /\ \/ fixtures[1][k].team_h = team
                      \/ fixtures[1][k].team_a = team }
    IN IF idx = {} THEN Undefined ELSE Some(fixtures[1][MinOf(idx)])

\* a fixture that has started taken for a finished one
FixtureFinishedOrStarted(e) ==
    /\ HasPlayer(e)
    /\ LET f == TeamFixture(PlayerOf(e).team)
       IN IsDefined(f) /\ (f[1].finished \/ f[1].finished_provisional \/ f[1].started)

\* a player whose team has no fixture taken for one whose fixture is finished
FixtureFinishedOrMissing(e) ==
    /\ HasPlayer(e)
    /\ LET f == TeamFixture(PlayerOf(e).team)
       IN ~IsDefined(f) \/ f[1].finished \/ f[1].finished_provisional

\* playerFixture?.finished || playerFixture?.finished_provisional
FixtureFinished(e) ==
    /\ HasPlayer(e)
    /\ LET f == TeamFixture(PlayerOf(e).team)
       IN IsDefined(f) /\ (f[1].finished \/ f[1].finished_provisional)

\* benchFixture?.started
FixtureStarted(e) ==
    /\ HasPlayer(e)
    /\ LET f == TeamFixture(PlayerOf(e).team)
       IN IsDefined(f) /\ f[1].started

\* positions of picks.picks.slice(0, 11) and of picks.picks.slice(11)
StartingPositions(p) ==
    1..(IF Len(p.picks) < StartingSize THEN Len(p.picks) ELSE StartingSize)
BenchPositions(p) == (StartingSize + 1)..Len(p.picks)

----------------------------------------------------------------------------
(* calculateLocalAutoSubs *)

\* const needsSub = minutes === 0 && fixtureFinished
NeedsSub(e) == MinutesOf(e) = 0 /\ FixtureFinished(e)

\* formationCount after the first forEach over the starting picks
InitialFormationCount(p) ==
    ApplyTo({ i \in StartingPositions(p) :
                ~NeedsSub(p.picks[i].element) /\ HasPlayer(p.picks[i].element) },
            LAMBDA safe :
              [ r \in {RoleGK, RoleDEF, RoleMID, RoleFWD} |->
                  Cardinality({ i \in safe :
                      PlayerOf(p.picks[i].element).element_type = r }) ])

\* the formation check of an outfield replacement of type t
FormationAllows(formationCount, t) ==
    LET newFormation == [formationCount EXCEPT ![t] = @ + 1]
    IN /\ ~(formationCount[RoleDEF] < 3 /\ t # RoleDEF)
       /\ ~(newFormation[RoleMID] > 5)
       /\ ~(newFormation[RoleFWD] > 3)

\* the inner loop without `if (usedBenchPlayers.has(benchPick.element)) continue`
ValidReplacementReusing(e, b, rs) ==
    /\ HasPlayer(b)
    /\ FixtureStarted(b)
    /\ LET isStartingGK == PlayerOf(e).element_type = RoleGK
           isBenchGK == PlayerOf(b).element_type = RoleGK
       IN /\ ~(isStartingGK /\ ~isBenchGK)
          /\ ~(~isStartingGK /\ isBenchGK)
          /\ (~isStartingGK =>
                 FormationAllows(rs.formationCount, PlayerOf(b).element_type))

\* the inner loop without the two goalkeeper `continue`s
ValidReplacementAnyRole(e, b, rs) ==
    /\ b \notin rs.usedBenchPlayers
    /\ HasPlayer(b)
    /\ FixtureStarted(b)
    /\ FormationAllows(rs.formationCount, PlayerOf(b).element_type)

\* the bench candidate b passes every `continue` of the inner loop
ValidReplacement(e, b, rs) ==
    /\ b \notin rs.usedBenchPlayers
    /\ HasPlayer(b)
    /\ FixtureStarted(b)
    /\ LET isStartingGK == PlayerOf(e).element_type = RoleGK
           isBenchGK == PlayerOf(b).element_type = RoleGK
       IN /\ ~(isStartingGK /\ ~isBenchGK)
          /\ ~(~isStartingGK /\ isBenchGK)
          /\ (~isStartingGK =>
                 FormationAllows(rs.formationCount, PlayerOf(b).element_type))

\* one iteration of `for (const pick of starting)`
ProcessStartingPick(p, i, rs) ==
    LET e == p.picks[i].element
    IN IF ~HasPlayer(e) THEN rs
       ELSE IF MinutesOf(e) > 0 \/ ~FixtureFinished(e) THEN rs
       ELSE LET cands == { j \in BenchPositions(p) :
                             ValidReplacement(e, p.picks[j].element, rs) }
            IN IF cands = {} THEN rs
               ELSE LET b == p.picks[MinOf(cands)].element
                    IN [ autoSubs |-> Append(rs.autoSubs,
                                        [ element_in |-> b,
                                          element_out |-> e,
                                          entry |-> p.entry,
                                          event |-> currentGameweek ]),
                         usedBenchPlayers |-> rs.usedBenchPlayers \cup {b},
                         formationCount |->
                           [rs.formationCount EXCEPT
                              ![PlayerOf(b).element_type] = @ + 1] ]

RECURSIVE ResolveFrom(_, _, _)
ResolveFrom(p, i, rs) ==
    IF i \notin StartingPositions(p) THEN rs
    ELSE ApplyTo(ProcessStartingPick(p, i, rs),
                 LAMBDA next : ResolveFrom(p, i + 1, next))

\* the local computation, after both early returns
LocalAutoSubs(p) ==
    ApplyTo([ autoSubs |-> << >>,
              usedBenchPlayers |-> {},
              formationCount |-> InitialFormationCount(p) ],
            LAMBDA rs : ResolveFrom(p, 1, rs)).autoSubs

\* the test without `picks.automatic_subs.length > 0`
HasUpstreamList(p) == IsDefined(p.automatic_subs)

\* picks.automatic_subs && picks.automatic_subs.length > 0
HasUpstreamSubs(p) ==
    IsDefined(p.automatic_subs) /\ Len(p.automatic_subs[1]) > 0

\* calculateLocalAutoSubs(picks); po is picks or undefined
calculateLocalAutoSubs(po) ==
    IF ~IsDefined(po) \/ ~IsDefined(liveData) \/ ~IsDefined(fixtures)
         \/ ~IsDefined(players)
    THEN << >>
    ELSE IF HasUpstreamSubs(po[1]) THEN po[1].automatic_subs[1]
    ELSE LocalAutoSubs(po[1])

----------------------------------------------------------------------------
(* calculateProvisionalBonus *)

\* this.liveData.elements, as the list of its ids in ascending order
LiveElements ==
    SelectSeq([ e \in 1..MaxElementId |-> e ], LAMBDA e : HasLive(e))

\* the players pushed to playersInFixture for fixture f
PlayersInFixture(f) ==
    SelectSeq(LiveElements,
        LAMBDA e : /\ HasPlayer(e)
                   /\ (PlayerOf(e).team = f.team_h \/ PlayerOf(e).team = f.team_a)
                   /\ MinutesOf(e) > 0)

\* playersInFixture.sort((a, b) => b.bps - a.bps): stable, descending
RECURSIVE InsertByBps(_, _)
InsertByBps(sorted, x) ==
    IF sorted = << >> THEN << x >>
    ELSE IF BpsOf(Head(sorted)) >= BpsOf(x)
         THEN << Head(sorted) >> \o InsertByBps(Tail(sorted), x)
         ELSE << x >> \o sorted

RECURSIVE SortByBps(_)
SortByBps(list) ==
    IF list = << >> THEN << >>
    ELSE ApplyTo(SortByBps(SubSeq(list, 1, Len(list) - 1)),
                 LAMBDA sorted : InsertByBps(sorted, list[Len(list)]))

\* bonusMap.set(id, bonus) for every id of T
SetAll(bonusMap, T, bonus) ==
    [ e \in (DOMAIN bonusMap) \cup T |-> IF e \in T THEN bonus ELSE bonusMap[e] ]

\* the inner while: index after the run of players tied with sorted[i]
RECURSIVE TiedEnd(_, _, _)
TiedEnd(sorted, i, currentBps) ==
    IF i <= Len(sorted) /\ BpsOf(sorted[i]) = currentBps
    THEN TiedEnd(sorted, i + 1, currentBps)
    ELSE i

\* the outer while with `position++` for `position += tiedPlayers.length`
RECURSIVE AwardBonusDense(_, _, _, _)
AwardBonusDense(sorted, i, position, bonusMap) ==
    IF ~(i <= Len(sorted) /\ position <= 3) THEN bonusMap
    ELSE LET next == TiedEnd(sorted, i, BpsOf(sorted[i]))
             tiedPlayers == { sorted[k] : k \in i..(next - 1) }
             bonus == 4 - position
         IN ApplyTo(SetAll(bonusMap, tiedPlayers, bonus),
                    LAMBDA awarded :
                        AwardBonusDense(sorted, next, position + 1, awarded))

\* while (i < playersInFixture.length && position <= 3)
RECURSIVE AwardBonus(_, _, _, _)
AwardBonus(sorted, i, position, bonusMap) ==
    IF ~(i <= Len(sorted) /\ position <= 3) THEN bonusMap
    ELSE LET next == TiedEnd(sorted, i, BpsOf(sorted[i]))
             tiedPlayers == { sorted[k] : k \in i..(next - 1) }
             bonus == 4 - position
         IN ApplyTo(SetAll(bonusMap, tiedPlayers, bonus),
                    LAMBDA awarded :
                        AwardBonus(sorted, next,
                                   position + Cardinality(tiedPlayers), awarded))

\* the body of gwFixtures.forEach for one fixture
FixtureBonus(f, bonusMap) ==
    ApplyTo(SortByBps(PlayersInFixture(f)),
            LAMBDA sorted : AwardBonus(sorted, 1, 1, bonusMap))

\* this.fixtures.filter(f => f.event === this.currentGameweek && f.started)
GwFixtures ==
    SelectSeq(fixtures[1], LAMBDA f : f.event = currentGameweek /\ f.started)

RECURSIVE BonusOverFixtures(_, _)
BonusOverFixtures(fs, bonusMap) ==
    IF fs = << >> THEN bonusMap
    ELSE ApplyTo(FixtureBonus(Head(fs), bonusMap),
                 LAMBDA awarded : BonusOverFixtures(Tail(fs), awarded))

calculateProvisionalBonus ==
    IF ~IsDefined(fixtures) \/ ~IsDefined(liveData) \/ ~IsDefined(players)
    THEN << >>
    ELSE BonusOverFixtures(GwFixtures, << >>)

\* provisionalBonus.get(id) || 0
CalcBonusOf(bonusMap, e) == IF e \in DOMAIN bonusMap THEN bonusMap[e] ELSE 0

----------------------------------------------------------------------------
(* calculateLiveInfo and getPlayerDetails *)

\* active_chip values; "none" is null
Chips == {"none", "bboost", "3xc", "freehit", "wildcard"}

\* web_name of an element missing from this.players
Unknown == 0

SubbedOut(subs) == { subs[k].element_out : k \in 1..Len(subs) }
SubbedIn(subs) == { subs[k].element_in : k \in 1..Len(subs) }

\* bonus added as in the earlier calculateLiveInfo: the official bonus on top of total_points
BonusToAddOfficial(bonusMap, e) ==
    IF ApiBonusOf(e) > 0 THEN ApiBonusOf(e) ELSE CalcBonusOf(bonusMap, e)

\* const bonusToAdd = apiBonus > 0 ? 0 : calcBonus
BonusToAdd(bonusMap, e) ==
    IF ApiBonusOf(e) > 0 THEN 0 ELSE CalcBonusOf(bonusMap, e)

\* const points = basePoints + bonusToAdd
PointsOf(bonusMap, e) == TotalPointsOf(e) + BonusToAdd(bonusMap, e)

\* isActive that ignores the substitutions: the starting eleven, and the bench
\* under bench boost
IsActiveStarting(p, subs, i) ==
    \/ i <= StartingSize
    \/ (p.active_chip = "bboost" /\ i > StartingSize)

\* isActive with the bench counted under any chip
IsActiveAnyChip(p, subs, i) ==
    LET e == p.picks[i].element
        isStarting == i <= StartingSize
    IN \/ (isStarting /\ e \notin SubbedOut(subs))
       \/ e \in SubbedIn(subs)
       \/ (p.active_chip # "none" /\ i > StartingSize)

\* isActive without the test of wasSubbedOut: a starter always counts
IsActiveKeepingStarters(p, subs, i) ==
    LET e == p.picks[i].element
    IN \/ i <= StartingSize
       \/ e \in SubbedIn(subs)
       \/ (p.active_chip = "bboost" /\ i > StartingSize)

\* isActive / pointsCount of the pick at 1-based position i
IsActive(p, subs, i) ==
    LET e == p.picks[i].element
        isStarting == i <= StartingSize
        isBenchBoost == p.active_chip = "bboost"
    IN \/ (isStarting /\ e \notin SubbedOut(subs))
       \/ e \in SubbedIn(subs)
       \/ (isBenchBoost /\ i > StartingSize)

\* the captain seen by activePicks.forEach: the last active pick flagged is_captain
ActiveCaptains(p, subs) ==
    { i \in 1..Len(p.picks) : IsActive(p, subs, i) /\ p.picks[i].is_captain }

MaxOf(S) == CHOOSE x \in S : \A y \in S : x >= y

\* the totals without `if (hasPlayed)`: every active pick is counted
LiveInfoCountingIdle(p, bonusMap, subs) ==
    LET counted == { i \in 1..Len(p.picks) :
                       IsActive(p, subs, i) }
        caps == ActiveCaptains(p, subs)
    IN [ played |-> Cardinality(counted),
         maxPlayers |-> Some(IF p.active_chip = "bboost" THEN 15 ELSE 11),
         captainName |->
            IF caps = {} THEN Undefined
            ELSE LET e == p.picks[MaxOf(caps)].element
                 IN Some(IF HasPlayer(e) THEN PlayerOf(e).web_name ELSE Unknown),
         captainPlayed |->
            IF caps = {} THEN FALSE
            ELSE MinutesOf(p.picks[MaxOf(caps)].element) > 0,
         activeChip |-> p.active_chip,
         livePoints |->
            SumOver([ i \in counted |->
                       PointsOf(bonusMap, p.picks[i].element)
                         * p.picks[i].multiplier ], counted) ]

\* the body of calculateLiveInfo after provisionalBonus and autoSubs are known
LiveInfoFrom(p, bonusMap, subs) ==
    LET counted == { i \in 1..Len(p.picks) :
                       IsActive(p, subs, i) /\ MinutesOf(p.picks[i].element) > 0 }
        caps == ActiveCaptains(p, subs)
    IN [ played |-> Cardinality(counted),
         maxPlayers |-> Some(IF p.active_chip = "bboost" THEN 15 ELSE 11),
         captainName |->
            IF caps = {} THEN Undefined
            ELSE LET e == p.picks[MaxOf(caps)].element
                 IN Some(IF HasPlayer(e) THEN PlayerOf(e).web_name ELSE Unknown),
         captainPlayed |->
            IF caps = {} THEN FALSE
            ELSE MinutesOf(p.picks[MaxOf(caps)].element) > 0,
         activeChip |-> p.active_chip,
         livePoints |->
            SumOver([ i \in counted |->
                       PointsOf(bonusMap, p.picks[i].element)
                         * p.picks[i].multiplier ], counted) ]

\* calculateLiveInfo(picks); bonusMap and subs are the values returned by its
\* calls of calculateProvisionalBonus() and calculateLocalAutoSubs(picks)
calculateLiveInfo(po, bonusMap, subs) ==
    IF ~IsDefined(po) \/ ~IsDefined(liveData)
    THEN [ played |-> 0, maxPlayers |-> Undefined, captainName |-> Undefined,
           captainPlayed |-> FALSE, activeChip |-> "none", livePoints |-> 0 ]
    ELSE LiveInfoFrom(po[1], bonusMap, subs)

\* fixtureStatus of getPlayerInfo
FixtureStatusOf(e) ==
    IF HasPlayer(e) /\ IsDefined(fixtures)
    THEN LET f == TeamFixture(PlayerOf(e).team)
         IN IF ~IsDefined(f) THEN "upcoming"
            ELSE IF f[1].finished \/ f[1].finished_provisional THEN "finished"
            ELSE IF f[1].started THEN "playing"
            ELSE "upcoming"
    ELSE "upcoming"

\* getPlayerInfo(pick, index) with index = i - 1
getPlayerInfo(p, subs, bonusMap, i) ==
    LET pick == p.picks[i]
        e == pick.element
        pointsCount == IsActive(p, subs, i)
        points == PointsOf(bonusMap, e)
    IN [ id |-> e,
         position |-> IF HasPlayer(e) THEN PlayerOf(e).element_type ELSE 0,
         points |-> points,
         bonusPoints |-> IF ApiBonusOf(e) > 0 THEN ApiBonusOf(e)
                         ELSE CalcBonusOf(bonusMap, e),
         effectivePoints |-> IF pointsCount THEN points * pick.multiplier ELSE 0,
         multiplier |-> pick.multiplier,
         isCaptain |-> pick.is_captain,
         hasPlayed |-> MinutesOf(e) > 0,
         minutes |-> MinutesOf(e),
         isBench |-> i > StartingSize,
         wasSubbedOut |-> e \in SubbedOut(subs),
         wasSubbedIn |-> e \in SubbedIn(subs),
         pointsCount |-> pointsCount,
         fixtureStatus |-> FixtureStatusOf(e) ]

\* picks.picks.map(getPlayerInfo), split into starting and bench
PlayerDetailsFrom(p, bonusMap, subs) ==
    LET allPlayers == [ i \in 1..Len(p.picks) |->
                          getPlayerInfo(p, subs, bonusMap, i) ]
    IN [ starting |-> SubSeq(allPlayers, 1,
                         IF Len(allPlayers) < StartingSize
                         THEN Len(allPlayers) ELSE StartingSize),
         bench |-> SubSeq(allPlayers, StartingSize + 1, Len(allPlayers)),
         activeChip |-> p.active_chip ]

\* getPlayerDetails(picks); bonusMap and subs as for calculateLiveInfo
getPlayerDetails(po, bonusMap, subs) ==
    IF ~IsDefined(po)
    THEN [ starting |-> << >>, bench |-> << >>, activeChip |-> "none" ]
    ELSE PlayerDetailsFrom(po[1], bonusMap, subs)

----------------------------------------------------------------------------
(* The snapshots loadLeague can store: one gameweek of the upstream API *)

\* the active gameweek reported by event-status
ActiveGameweek == 22

\* the home teams of the fixtures below, by the state of their fixture
Team == [ upcoming |-> 1, live |-> 3, provisional |-> 5, finished |-> 7,
          blank |-> 9 ]

Fixture(ev, h, a, st, fin, prov) ==
    [ event |-> ev, team_h |-> h, team_a |-> a,
      started |-> st, finished |-> fin, finished_provisional |-> prov ]

\* one fixture of the previous gameweek, then the active gameweek: not started,
\* live, finished provisionally, finished; team 9 has no fixture this gameweek
GameweekFixtures ==
    << Fixture(ActiveGameweek - 1, Team.upcoming, Team.blank, TRUE, TRUE, TRUE),
       Fixture(ActiveGameweek, Team.upcoming, 2, FALSE, FALSE, FALSE),
       Fixture(ActiveGameweek, Team.live, 4, TRUE, FALSE, FALSE),
       Fixture(ActiveGameweek, Team.provisional, 6, TRUE, FALSE, TRUE),
       Fixture(ActiveGameweek, Team.finished, 8, TRUE, TRUE, TRUE) >>

\* a squad is 2 GK, 5 DEF, 5 MID, 3 FWD; a formation <<d, m, f>> has 10 outfield
\* starters with 3..5 DEF, 2..5 MID, 1..3 FWD
SquadSize == [ r \in OutfieldRoles |->
                 IF r = RoleFWD THEN 3 ELSE 5 ]
Formations ==
    { fm \in [OutfieldRoles -> 1..5] :
        /\ fm[RoleDEF] + fm[RoleMID] + fm[RoleFWD] = 10
        /\ fm[RoleDEF] >= 3 /\ fm[RoleMID] >= 2 /\ fm[RoleFWD] <= 3 }

\* the three outfield bench picks, in any order
BenchOrders(fm) ==
    { bo \in [1..3 -> OutfieldRoles] :
        \A r \in OutfieldRoles :
            Cardinality({ k \in 1..3 : bo[k] = r }) = SquadSize[r] - fm[r] }

\* element_type of the pick at position i: GK, DEF.., MID.., FWD.., then the bench
SlotType(fm, bo, i) ==
    IF i = 1 THEN RoleGK
    ELSE IF i <= 1 + fm[RoleDEF] THEN RoleDEF
    ELSE IF i <= 1 + fm[RoleDEF] + fm[RoleMID] THEN RoleMID
    ELSE IF i <= StartingSize THEN RoleFWD
    ELSE IF i = StartingSize + 1 THEN RoleGK
    ELSE bo[i - StartingSize - 1]

Slots == 1..15
StartingSlots == 1..StartingSize
BenchSlots == (StartingSize + 1)..15

\* a player's situation in the gameweek: his team (hence his fixture) and minutes
Situation(t, m) == [ team |-> t, minutes |-> m ]
BenchSituations == { Situation(Team.upcoming, 0), Situation(Team.finished, 0),
                     Situation(Team.finished, 90) }

\* the picks of entry 1001: elements 1..15 in pick order, captain at position cap
ManagerEntry == 1001
RosterPicks(cap, capMultiplier) ==
    [ i \in Slots |->
        [ element |-> i,
          multiplier |-> IF i = cap THEN capMultiplier ELSE 1,
          is_captain |-> (i = cap) ] ]

\* live stats of a player in situation s; base points, bonus and BPS as given
Stats(s, pts, bon, bp) ==
    [ minutes |-> s.minutes,
      total_points |-> IF s.minutes > 0 THEN pts ELSE 0,
      bonus |-> IF s.minutes > 0 THEN bon ELSE 0,
      bps |-> IF s.minutes > 0 THEN bp ELSE 0 ]

\* the starters with 0 minutes in a finished fixture: at most MaxNeedy, the
\* first ones of their role
NeedySets(fm, bo) ==
    { S \in SUBSET StartingSlots :
        /\ Cardinality(S) <= MaxNeedy
        /\ \A i \in S : \/ i = 1
                        \/ i - 1 \in S
                        \/ SlotType(fm, bo, i - 1) # SlotType(fm, bo, i) }

\* one starter with 0 minutes whose fixture is not finished: the last one of
\* his role
IdleSets(fm, bo, needy) ==
    { {i} : i \in { j \in StartingSlots \ needy :
                      \/ j = StartingSize
                      \/ SlotType(fm, bo, j + 1) # SlotType(fm, bo, j) } }

\* every situation of the three outfield bench picks; of the bench goalkeeper
\* too when the starting goalkeeper is needy, else he played
BenchSituationsFor(needy, situations) ==
    { bs \in [BenchSlots -> situations] :
        1 \in needy \/ bs[StartingSize + 1] = Situation(Team.finished, 90) }

StarterSituation(i, needy, idle) ==
    IF i \in needy
    THEN Situation(IF i % 2 = 0 THEN Team.provisional ELSE Team.finished, 0)
    ELSE IF i \in idle
    THEN Situation(IF i = 1 THEN Team.blank
                   ELSE IF i % 2 = 0 THEN Team.upcoming ELSE Team.live, 0)
    ELSE IF i % 2 = 0 THEN Situation(Team.finished, 90)
    ELSE Situation(Team.live, 60)

----------------------------------------------------------------------------
(* Actions *)

Init ==
    /\ players = Undefined
    /\ fixtures = Undefined
    /\ liveData = Undefined
    /\ currentGameweek = 1
    /\ picks = Undefined
    /\ autoSubs = << >>
    /\ provisionalBonus = << >>
    /\ liveInfo = Undefined
    /\ details = Undefined
    /\ pc = "constructed"
    /\ standings = Undefined
    /\ managerData = << >>
    /\ gameweekDates = << >>
    /\ currentMonth = Undefined
    /\ currentView = "monthly"
    /\ expandedRows = {}
    /\ fetches = << >>
    /\ scores = Undefined
    /\ leagueId = Undefined
    /\ section = "setup"
    /\ refreshInterval = 0
    /\ timers = {}
    /\ calls = << >>
    /\ started = 0
    /\ done = {}
    /\ eventStatus = ActiveGameweek
    /\ cache = << >>
    /\ clock = 0
    /\ requests = {}
    /\ returned = Undefined
    /\ unread = {}

\* what loadLeague stores when fetchManagerData, its last await, resolves
StoreSnapshot(ps, fx, live, pk) ==
    /\ players' = Some(ps)
    /\ fixtures' = Some(fx)
    /\ currentGameweek' = ActiveGameweek
    /\ liveData' = Some(live)
    /\ picks' = Some(pk)
    /\ pc' = "loaded"
    /\ UNCHANGED <<autoSubs, provisionalBonus, liveInfo, details>>
    /\ UNCHANGED leagueVars
    /\ UNCHANGED sessionVars

\* calculateScores -> calculateLiveInfo(data.picks) on the stored snapshot
CalculateScores ==
    /\ provisionalBonus' = calculateProvisionalBonus
    /\ autoSubs' = calculateLocalAutoSubs(picks)
    /\ liveInfo' = Some(calculateLiveInfo(picks, provisionalBonus', autoSubs'))
    /\ UNCHANGED <<players, fixtures, liveData, currentGameweek, picks>>
    /\ UNCHANGED leagueVars
    /\ UNCHANGED sessionVars

\* loadLeague on the gameweek of formation fm and bench order bo in which the
\* starters of needy and idle have 0 minutes and the bench is as in benchSit
LoadGameweek(fm, bo, needy, idle, benchSit) ==
    LET sit == [ i \in Slots |->
                   IF i \in BenchSlots THEN benchSit[i]
                   ELSE StarterSituation(i, needy, idle) ]
    IN StoreSnapshot(
         [ i \in Slots |-> [ element_type |-> SlotType(fm, bo, i),
                             team |-> sit[i].team,
                             web_name |-> i ] ],
         GameweekFixtures,
         [ i \in Slots |-> Stats(sit[i], 2 + (i % 3), 0, 10 + (i % 4)) ],
         [ picks |-> RosterPicks(6, 2),
           active_chip |-> "none",
           automatic_subs |-> Undefined,
           entry |-> ManagerEntry ])

\* loadLeague on a gameweek in which the fixture of every starter with 0
\* minutes is finished: every formation and bench order, the needy starters,
\* every situation of the bench
loadLeague ==
    /\ pc = "constructed"
    /\ \E fm \in Formations :
           \E bo \in BenchOrders(fm) :
           \E needy \in NeedySets(fm, bo) :
           \E benchSit \in BenchSituationsFor(needy, BenchSituations) :
             LoadGameweek(fm, bo, needy, {}, benchSit)

\* this.renderLeaderboard() at the end of loadLeague, no row expanded
renderLeaderboard ==
    /\ pc = "loaded"
    /\ CalculateScores
    /\ details' = Undefined
    /\ pc' = "scored"

\* toggleRowExpansion(manager): the row is added to or deleted from
\* expandedRows, then renderLeaderboard; an expanded row is rendered by
\* createPlayerDetailsRow -> getPlayerDetails(manager.picks)
toggleRowExpansion ==
    /\ pc \in {"scored", "detailed"}
    /\ CalculateScores
    /\ IF pc = "scored"
       THEN /\ details' = Some(getPlayerDetails(picks, provisionalBonus', autoSubs'))
            /\ pc' = "detailed"
       ELSE /\ details' = Undefined
            /\ pc' = "scored"

Next == loadLeague \/ renderLeaderboard \/ toggleRowExpansion

Spec == Init /\ [][Next]_vars

----------------------------------------------------------------------------
(* Starters whose fixture is not finished *)

\* loadLeague on a gameweek in which one starter more has 0 minutes, his
\* fixture not finished or his team without fixture; each bench player has
\* played or not started
loadLeagueIdle ==
    /\ pc = "constructed"
    /\ \E fm \in Formations :
           \E bo \in BenchOrders(fm) :
           \E needy \in NeedySets(fm, bo) :
           \E idle \in IdleSets(fm, bo, needy) :
           \E benchSit \in BenchSituationsFor(needy,
                             { Situation(Team.upcoming, 0),
                               Situation(Team.finished, 90) }) :
             LoadGameweek(fm, bo, needy, idle, benchSit)

NextIdle == loadLeagueIdle \/ renderLeaderboard \/ toggleRowExpansion

SpecIdle == Init /\ [][NextIdle]_vars

----------------------------------------------------------------------------
(* Scoring: chips, upstream substitution lists, captains, official bonus *)

\* formation 4-4-2 with the bench GK, DEF, MID, FWD
ScoringFormation == [ r \in OutfieldRoles |-> IF r = RoleFWD THEN 2 ELSE 4 ]
ScoringBench == [ k \in 1..3 |-> k + 1 ]

\* the upstream list: absent, empty, or bench DEF 13 on for the DEF 2
UpstreamLists ==
    { Undefined, Some(<< >>),
      Some(<< [ element_in |-> 13, element_out |-> 2,
                entry |-> ManagerEntry, event |-> ActiveGameweek ] >>) }

\* the players whose official bonus may be confirmed, with that bonus
OfficialBonus == [ e \in {3, 6, 13} |-> IF e = 3 THEN 3 ELSE IF e = 6 THEN 2 ELSE 1 ]

\* loadLeague on a gameweek with any chip and upstream list (upstream reports
\* no substitution under bench boost): the DEF 2 and the MID 6 may have 0
\* minutes in a finished fixture, the captain is one of them, each bench
\* player has played or not started, and official bonus is confirmed for any
\* of the players of OfficialBonus
loadLeagueLive ==
    /\ pc = "constructed"
    /\ \E chip \in Chips :
       \E upstream \in UpstreamLists :
       \E cap \in {2, 6} :
       \E needy \in SUBSET {2, 6} :
       \E benchSit \in [BenchSlots -> { Situation(Team.upcoming, 0),
                                         Situation(Team.finished, 90) }] :
       \E confirmed \in SUBSET (DOMAIN OfficialBonus) :
         /\ ~(chip = "bboost" /\ Len(upstream) > 0 /\ Len(upstream[1]) > 0)
         /\ LET sit == [ i \in Slots |->
                           IF i \in BenchSlots THEN benchSit[i]
                           ELSE IF i \in needy THEN Situation(Team.finished, 0)
                           ELSE Situation(Team.finished, 90) ]
                bon == [ i \in Slots |->
                           IF i \in confirmed THEN OfficialBonus[i] ELSE 0 ]
            IN StoreSnapshot(
                 [ i \in Slots |->
                     [ element_type |-> SlotType(ScoringFormation, ScoringBench, i),
                       team |-> sit[i].team,
                       web_name |-> i ] ],
                 GameweekFixtures,
                 [ i \in Slots |->
                     Stats(sit[i], 2 + (i % 3) + bon[i], bon[i], 10 + (i % 4)) ],
                 [ picks |-> RosterPicks(cap, IF chip = "3xc" THEN 3 ELSE 2),
                   active_chip |-> chip,
                   automatic_subs |-> upstream,
                   entry |-> ManagerEntry ])

NextLive == loadLeagueLive \/ renderLeaderboard \/ toggleRowExpansion

SpecLive == Init /\ [][NextLive]_vars

----------------------------------------------------------------------------
(* Provisional bonus of one fixture *)

\* BPS of a player who played
BpsValues == {5, 8, 10}

\* loadLeague while one fixture is live: the elements 1..MaxFixturePlayers
\* belong to its home team, each with 0 minutes or any BPS of BpsValues; the
\* fixtures of the other players have not started
loadLeagueBonus ==
    /\ pc = "constructed"
    /\ \E bps \in [1..MaxFixturePlayers -> BpsValues \cup {0}] :
         LET sit == [ i \in Slots |->
                        IF i <= MaxFixturePlayers /\ bps[i] > 0
                        THEN Situation(Team.live, 60)
                        ELSE IF i <= MaxFixturePlayers
                        THEN Situation(Team.live, 0)
                        ELSE Situation(Team.upcoming, 0) ]
         IN StoreSnapshot(
              [ i \in Slots |->
                  [ element_type |-> SlotType(ScoringFormation, ScoringBench, i),
                    team |-> sit[i].team,
                    web_name |-> i ] ],
              GameweekFixtures,
              [ i \in Slots |->
                  Stats(sit[i], 2, 0, IF i <= MaxFixturePlayers THEN bps[i] ELSE 0) ],
              [ picks |-> RosterPicks(6, 2),
                active_chip |-> "none",
                automatic_subs |-> Undefined,
                entry |-> ManagerEntry ])

NextBonus == loadLeagueBonus \/ renderLeaderboard \/ toggleRowExpansion

SpecBonus == Init /\ [][NextBonus]_vars

----------------------------------------------------------------------------
(* Players without live stats or without a fixture *)

\* the roster players that may be missing from the live data of the gameweek
MaxAbsent == 2

\* the slots whose player may be missing or may have no fixture: both
\* goalkeepers, a DEF and a MID of a finished fixture, a FWD of a live one,
\* the first and the last outfield bench pick
IncompleteSlots == {1, 2, 6, 11, 12, 13, 15}

\* loadLeague on a gameweek whose live data lacks the players of absent and in
\* which the team of the players of blank has no fixture; the other starters
\* played, and so did the bench
loadLeagueIncomplete ==
    /\ pc = "constructed"
    /\ \E absent \in SUBSET IncompleteSlots :
       \E blank \in SUBSET IncompleteSlots :
       \E chip \in {"none", "bboost"} :
         /\ Cardinality(absent) <= MaxAbsent
         /\ Cardinality(blank) <= 1
         /\ LET sit == [ i \in Slots |->
                           IF i \in blank THEN Situation(Team.blank, 0)
                           ELSE IF i \in BenchSlots
                           THEN Situation(Team.finished, 90)
                           ELSE StarterSituation(i, {}, {}) ]
            IN StoreSnapshot(
                 [ i \in Slots |->
                     [ element_type |-> SlotType(ScoringFormation, ScoringBench, i),
                       team |-> sit[i].team,
                       web_name |-> i ] ],
                 GameweekFixtures,
                 [ i \in Slots \ absent |->
                     Stats(sit[i], 2 + (i % 3), 0, 10 + (i % 4)) ],
                 [ picks |-> RosterPicks(6, 2),
                   active_chip |-> chip,
                   automatic_subs |-> Undefined,
                   entry |-> ManagerEntry ])

NextIncomplete == loadLeagueIncomplete \/ renderLeaderboard \/ toggleRowExpansion

SpecIncomplete == Init /\ [][NextIncomplete]_vars

----------------------------------------------------------------------------
(* calculateScores, calculatePositionChanges and sortScores *)

\* getGameweeksForMonth(monthKey): the gameweeks whose earliest kickoff is in
\* the month; the list is only used through includes()
getGameweeksForMonth(monthKey) ==
    { gw \in DOMAIN gameweekDates : gameweekDates[gw] = monthKey }

\* the sum with the historical entry of the current gameweek left in
HistoryPointsWithCurrent(history, monthGameweeks) ==
    LET kept == { k \in 1..Len(history) : history[k].event \in monthGameweeks }
    IN SumOver([ k \in kept |-> history[k].points ], kept)

\* monthlyPointsBeforeCurrentGW: data.history.current filtered and summed
HistoryPoints(history, monthGameweeks) ==
    LET kept == { k \in 1..Len(history) :
                    /\ history[k].event \in monthGameweeks
                    /\ history[k].event # currentGameweek }
    IN SumOver([ k \in kept |-> history[k].points ], kept)

\* the record calculateScores returns for a manager without data
ZeroedScore(manager) ==
    [ entry |-> manager.entry, total |-> manager.total,
      gameweekPoints |-> 0, monthlyPoints |-> 0, previousMonthlyPoints |-> 0,
      playedPlayers |-> 0, maxPlayers |-> 11, captain |-> Undefined,
      captainPlayed |-> FALSE, activeChip |-> "none", livePoints |-> 0,
      picks |-> Undefined ]

\* the record calculateScores returns for a manager with data
LiveScore(manager, data, monthGameweeks, info) ==
    LET before == HistoryPoints(data.history, monthGameweeks)
    IN [ entry |-> manager.entry, total |-> manager.total,
         gameweekPoints |-> info.livePoints,
         monthlyPoints |-> IF currentGameweek \in monthGameweeks
                           THEN before + info.livePoints ELSE before,
         previousMonthlyPoints |-> before,
         playedPlayers |-> info.played,
         maxPlayers |-> IF IsDefined(info.maxPlayers)
                        THEN info.maxPlayers[1] ELSE 11,
         captain |-> info.captainName,
         captainPlayed |-> info.captainPlayed,
         activeChip |-> info.activeChip,
         livePoints |-> info.livePoints,
         picks |-> Some(data.picks) ]

\* one element of the map of calculateScores
ScoreOf(manager, md, monthGameweeks, bonusMap) ==
    IF manager.entry \notin DOMAIN md THEN ZeroedScore(manager)
    ELSE LET po == Some(md[manager.entry].picks)
         IN ApplyTo(calculateLocalAutoSubs(po),
              LAMBDA subs :
                ApplyTo(calculateLiveInfo(po, bonusMap, subs),
                  LAMBDA info :
                    LiveScore(manager, md[manager.entry], monthGameweeks, info)))

\* the comparator of currentSorted without the gameweek points
CurrentBeforeByTotal(a, b) ==
    IF b.monthlyPoints # a.monthlyPoints THEN b.monthlyPoints < a.monthlyPoints
    ELSE b.total < a.total

\* the comparator of currentSorted: TRUE when it returns a negative number
CurrentBefore(a, b) ==
    IF b.monthlyPoints # a.monthlyPoints THEN b.monthlyPoints < a.monthlyPoints
    ELSE IF b.gameweekPoints # a.gameweekPoints
    THEN b.gameweekPoints < a.gameweekPoints
    ELSE b.total < a.total

\* the comparator of previousSorted
PreviousBefore(a, b) ==
    IF b.previousMonthlyPoints # a.previousMonthlyPoints
    THEN b.previousMonthlyPoints < a.previousMonthlyPoints
    ELSE b.total < a.total

\* a[field] of sortScores
PrimaryField(view, a) ==
    IF view = "monthly" THEN a.monthlyPoints ELSE a.gameweekPoints

\* the comparator without its secondary sort by gameweek points
ViewBeforeByTotal(view, a, b) ==
    IF PrimaryField(view, b) # PrimaryField(view, a)
    THEN PrimaryField(view, b) < PrimaryField(view, a)
    ELSE b.total < a.total

\* the comparator of sortScores
ViewBefore(view, a, b) ==
    IF PrimaryField(view, b) # PrimaryField(view, a)
    THEN PrimaryField(view, b) < PrimaryField(view, a)
    ELSE IF b.gameweekPoints # a.gameweekPoints
    THEN b.gameweekPoints < a.gameweekPoints
    ELSE b.total < a.total

\* the comparator of the sort named order
Before(order, a, b) ==
    IF order = "current" THEN CurrentBefore(a, b)
    ELSE IF order = "previous" THEN PreviousBefore(a, b)
    ELSE ViewBefore(order, a, b)

\* Array.prototype.sort is stable: x goes behind every element that the
\* comparator does not put after it
RECURSIVE InsertSorted(_, _, _)
InsertSorted(sorted, x, order) ==
    IF sorted = << >> THEN << x >>
    ELSE IF Before(order, x, sorted[Len(sorted)])
    THEN Append(InsertSorted(SubSeq(sorted, 1, Len(sorted) - 1), x, order),
                sorted[Len(sorted)])
    ELSE Append(sorted, x)

\* [...scores].sort(comparator)
RECURSIVE StableSort(_, _)
StableSort(list, order) ==
    IF list = << >> THEN << >>
    ELSE ApplyTo(StableSort(SubSeq(list, 1, Len(list) - 1), order),
           LAMBDA sorted : InsertSorted(sorted, list[Len(list)], order))

\* positions.get(entry): index + 1 of the manager in a sorted list
PositionIn(sorted, e) == CHOOSE k \in 1..Len(sorted) : sorted[k].entry = e

\* { ...manager, currentPosition, previousPosition, positionChange }
WithPositions(manager, currentPos, previousPos, change) ==
    [ f \in DOMAIN manager
              \cup {"currentPosition", "previousPosition", "positionChange"} |->
        IF f = "currentPosition" THEN currentPos
        ELSE IF f = "previousPosition" THEN previousPos
        ELSE IF f = "positionChange" THEN change
        ELSE manager[f] ]

\* calculatePositionChanges with the subtraction the other way round
calculatePositionChangesInverted(sc) ==
    ApplyTo(<< StableSort(sc, "current"), StableSort(sc, "previous") >>,
      LAMBDA both :
        [ k \in 1..Len(sc) |->
            LET currentPos == PositionIn(both[1], sc[k].entry)
                previousPos == PositionIn(both[2], sc[k].entry)
            IN WithPositions(sc[k], currentPos, previousPos,
                             currentPos - previousPos) ])

\* calculatePositionChanges(scores)
calculatePositionChanges(sc) ==
    ApplyTo(<< StableSort(sc, "current"), StableSort(sc, "previous") >>,
      LAMBDA both :
        [ k \in 1..Len(sc) |->
            LET currentPos == PositionIn(both[1], sc[k].entry)
                previousPos == PositionIn(both[2], sc[k].entry)
            IN WithPositions(sc[k], currentPos, previousPos,
                             previousPos - currentPos) ])

\* sortScores(scores) with this.currentView = view
sortScores(sc, view) == StableSort(sc, view)

\* calculateScores without the records of the managers that have no data
calculateScoresSkipping(st, md, month) ==
    IF ~IsDefined(st) THEN << >>
    ELSE ApplyTo(calculateProvisionalBonus,
           LAMBDA bonusMap :
             LET present == SelectSeq(st[1], LAMBDA m : m.entry \in DOMAIN md)
             IN [ k \in 1..Len(present) |->
                    ScoreOf(present[k], md, getGameweeksForMonth(month[1]),
                            bonusMap) ])

\* calculateScores() with this.standings = st, this.managerData = md and
\* this.currentMonth = month
calculateScores(st, md, month) ==
    IF ~IsDefined(st) THEN << >>
    ELSE ApplyTo(calculateProvisionalBonus,
           LAMBDA bonusMap :
             [ k \in 1..Len(st[1]) |->
                 ScoreOf(st[1][k], md, getGameweeksForMonth(month[1]), bonusMap) ])

\* what renderLeaderboard renders: sortScores(calculatePositionChanges(
\* calculateScores()))
RenderedScores(st, md, month, view) ==
    ApplyTo(calculateScores(st, md, month),
      LAMBDA sc : sortScores(calculatePositionChanges(sc), view))

----------------------------------------------------------------------------
(* The league table: loadLeague, refresh and the events that render again *)

\* the refreshes that may overlap
MaxInFlight == 2

\* standings.standings.results: the first members of the league, in the
\* order of the upstream ranking
LeagueMembers ==
    << [ entry |-> 1001, total |-> 950 ],
       [ entry |-> 1002, total |-> 950 ],
       [ entry |-> 1003, total |-> 960 ] >>

Entries == { LeagueMembers[k].entry : k \in 1..Len(LeagueMembers) }

\* kickoff dates <<year, month, day>> as Date reports them (January is 0)
DateBefore(d, e) ==
    \/ d[1] < e[1]
    \/ d[1] = e[1] /\ d[2] < e[2]
    \/ d[1] = e[1] /\ d[2] = e[2] /\ d[3] < e[3]

\* kickoff_time of gameweek 20, of gameweek 21, of the first fixture and of
\* the other fixtures of gameweek 22
KickoffScenarios ==
    { << <<2025, 11, 28>>, <<2026, 0, 3>>, <<2026, 0, 17>>, <<2026, 0, 18>> >>,
      << <<2026, 0, 3>>, <<2026, 0, 17>>, <<2026, 0, 31>>, <<2026, 1, 1>> >>,
      << <<2026, 0, 17>>, <<2026, 0, 24>>, <<2026, 1, 1>>, <<2026, 1, 2>> >> }

\* the fixtures of the snapshot with their kickoff times; the later kickoffs
\* of a gameweek come first in the list
LeagueFixtures(kickoffs) ==
    << [ event |-> ActiveGameweek - 2, team_h |-> Team.blank, team_a |-> 10,
         started |-> TRUE, finished |-> TRUE, finished_provisional |-> TRUE,
         kickoff_time |-> kickoffs[1] ] >>
    \o [ k \in 1..Len(GameweekFixtures) |->
           [ event |-> GameweekFixtures[k].event,
             team_h |-> GameweekFixtures[k].team_h,
             team_a |-> GameweekFixtures[k].team_a,
             started |-> GameweekFixtures[k].started,
             finished |-> GameweekFixtures[k].finished,
             finished_provisional |-> GameweekFixtures[k].finished_provisional,
             kickoff_time |-> IF k = 1 THEN kickoffs[2]
                              ELSE IF k = Len(GameweekFixtures) THEN kickoffs[3]
                              ELSE kickoffs[4] ] ]

\* buildGameweekDates(fixtures): year and month of the earliest kickoff of
\* each gameweek
buildGameweekDates(fx) ==
    [ gw \in { fx[k].event : k \in 1..Len(fx) } |->
        LET dates == { fx[k].kickoff_time :
                         k \in { j \in 1..Len(fx) : fx[j].event = gw } }
            earliest == CHOOSE d \in dates :
                          \A e \in dates : ~DateBefore(e, d)
        IN << earliest[1], earliest[2] >> ]

\* the keys `${year}-${month}` of buildMonthOptions
AvailableMonths(dates) == { dates[gw] : gw \in DOMAIN dates }

\* the place of the month number, written in decimal, among the strings
\* "0".."11" sorted as strings: "0" "1" "10" "11" "2" .. "9"
MonthStringRank(m) ==
    IF m <= 1 THEN m ELSE IF m >= 10 THEN m - 8 ELSE m + 2

\* the order of Array.prototype.sort() on the keys, which are strings
KeyBefore(a, b) ==
    \/ a[1] < b[1]
    \/ a[1] = b[1] /\ MonthStringRank(a[2]) < MonthStringRank(b[2])

\* this.currentMonth of buildMonthOptions when the clock says month now
DefaultMonth(dates, now) ==
    IF now \in AvailableMonths(dates) THEN now
    ELSE CHOOSE key \in AvailableMonths(dates) :
           \A other \in AvailableMonths(dates) : ~KeyBefore(key, other)

\* the months of the clock: in the season or after it
Clock == { <<2026, 0>>, <<2026, 6>> }

\* the data of a manager: history.current and the picks of the gameweek
ManagerResponse(e, cap, previousPoints) ==
    [ history |->
        << [ event |-> ActiveGameweek - 2, points |-> 45 ],
           [ event |-> ActiveGameweek - 1, points |-> previousPoints ],
           [ event |-> ActiveGameweek, points |-> 40 ] >>,
      picks |-> [ picks |-> RosterPicks(cap, 2),
                  active_chip |-> "none",
                  automatic_subs |-> Undefined,
                  entry |-> e ] ]

\* the outcomes of fetching a manager: the request fails, or one of three
\* teams that tie on some of the sort keys
Responses(e) ==
    { Undefined,
      Some(ManagerResponse(e, 2, 50)),
      Some(ManagerResponse(e, 4, 51)),
      Some(ManagerResponse(e, 2, 51)) }

\* the outcomes while refreshing: the request fails or returns the same team
RefreshResponses(e) ==
    { Undefined, Some(ManagerResponse(e, 2, 50)) }

\* one call of fetchManagerData(managers) by caller, awaiting its batch
FetchCall(caller, managers) ==
    [ caller |-> caller, managers |-> managers,
      pending |-> { managers[k].entry : k \in 1..Len(managers) } ]

\* the sequence s without its element k
RemoveAt(s, k) == SubSeq(s, 1, k - 1) \o SubSeq(s, k + 1, Len(s))

\* loadLeague up to the await of fetchManagerData: the snapshot is stored,
\* fetchManagerData has replaced the map and started the requests of its batch
LoadLeagueUntilFetch(kickoffs, now) ==
    LET fx == LeagueFixtures(kickoffs)
        sit == [ i \in Slots |->
                   IF i \in BenchSlots THEN Situation(Team.finished, 90)
                   ELSE StarterSituation(i, {}, {}) ]
    IN /\ players' = Some([ i \in Slots |->
                              [ element_type |->
                                  SlotType(ScoringFormation, ScoringBench, i),
                                team |-> sit[i].team,
                                web_name |-> i ] ])
       /\ fixtures' = Some(fx)
       /\ currentGameweek' = ActiveGameweek
       /\ gameweekDates' = buildGameweekDates(fx)
       /\ currentMonth' = Some(DefaultMonth(buildGameweekDates(fx), now))
       /\ liveData' = Some([ i \in Slots |->
                               Stats(sit[i], 2 + (i % 3), 0, 10 + (i % 4)) ])
       /\ managerData' = << >>
       /\ fetches' = Append(fetches, FetchCall("loadLeague", LeagueMembers))
       /\ pc' = "loading"
       /\ UNCHANGED <<picks, autoSubs, provisionalBonus, liveInfo, details,
                      standings, currentView, expandedRows, scores>>
       /\ UNCHANGED sessionVars

\* this.managerData after the request of manager e has settled: set(entry,
\* { history, picks }), or the failure is logged and the map left alone
SettledData(e, response) ==
    IF IsDefined(response)
    THEN [ x \in DOMAIN managerData \cup {e} |->
             IF x = e THEN response[1] ELSE managerData[x] ]
    ELSE managerData

\* a request of the batch of call k settles while others are pending
ManagerFetchSettles(k, e, response) ==
    /\ fetches[k].pending # {e}
    /\ managerData' = SettledData(e, response)
    /\ fetches' = [ fetches EXCEPT ![k].pending = @ \ {e} ]
    /\ UNCHANGED <<players, fixtures, liveData, currentGameweek, picks,
                   autoSubs, provisionalBonus, liveInfo, details, pc,
                   standings, gameweekDates, currentMonth, currentView,
                   expandedRows, scores>>
    /\ UNCHANGED sessionVars

\* the last request of the batch of call k settles: fetchManagerData returns
\* and its caller goes on; loadLeague stores this.standings, both render
CallerResumes(k, e, response) ==
    /\ fetches[k].pending = {e}
    /\ managerData' = SettledData(e, response)
    /\ fetches' = RemoveAt(fetches, k)
    /\ IF fetches[k].caller = "loadLeague"
       THEN /\ standings' = Some(fetches[k].managers)
            /\ pc' = "shown"
       ELSE UNCHANGED <<standings, pc>>
    /\ scores' = Some(RenderedScores(standings', managerData', currentMonth,
                                     currentView))
    /\ UNCHANGED <<players, fixtures, liveData, currentGameweek, picks,
                   autoSubs, provisionalBonus, liveInfo, details,
                   gameweekDates, currentMonth, currentView, expandedRows>>
    /\ UNCHANGED sessionVars

\* loadLeague on a league whose fixtures are in one, two or three months
loadLeagueTable ==
    /\ pc = "constructed"
    /\ \E kickoffs \in KickoffScenarios : \E now \in Clock :
         LoadLeagueUntilFetch(kickoffs, now)

\* a request of the batch settles with any outcome
fetchManagerData ==
    /\ fetches # << >>
    /\ \E k \in 1..Len(fetches) : \E e \in fetches[k].pending :
         \E response \in Responses(e) : ManagerFetchSettles(k, e, response)

\* the last request settles with any outcome; loadLeague shows the table
loadLeagueShows ==
    /\ pc = "loading"
    /\ \E k \in 1..Len(fetches) : \E e \in fetches[k].pending :
         \E response \in Responses(e) : CallerResumes(k, e, response)

\* the change handler of the month filter
monthFilterChange ==
    /\ pc = "shown"
    /\ \E month \in AvailableMonths(gameweekDates) \ {currentMonth[1]} :
         /\ currentMonth' = Some(month)
         /\ scores' = Some(RenderedScores(standings, managerData, Some(month),
                                          currentView))
    /\ UNCHANGED <<players, fixtures, liveData, currentGameweek, picks,
                   autoSubs, provisionalBonus, liveInfo, details, pc,
                   standings, managerData, gameweekDates, currentView,
                   expandedRows, fetches>>
    /\ UNCHANGED sessionVars

\* switchView(view) of the view buttons
switchView ==
    /\ pc = "shown"
    /\ \E view \in {"monthly", "gameweek"} \ {currentView} :
         /\ currentView' = view
         /\ scores' = Some(RenderedScores(standings, managerData, currentMonth,
                                          view))
    /\ UNCHANGED <<players, fixtures, liveData, currentGameweek, picks,
                   autoSubs, provisionalBonus, liveInfo, details, pc,
                   standings, managerData, gameweekDates, currentMonth,
                   expandedRows, fetches>>
    /\ UNCHANGED sessionVars

\* toggleRowExpansion(manager) on the first row of the table
toggleFirstRow ==
    /\ pc = "shown"
    /\ scores # Undefined
    /\ Len(scores[1]) > 0
    /\ LET e == scores[1][1].entry
       IN expandedRows' = IF e \in expandedRows THEN expandedRows \ {e}
                          ELSE expandedRows \cup {e}
    /\ scores' = Some(RenderedScores(standings, managerData, currentMonth,
                                     currentView))
    /\ UNCHANGED <<players, fixtures, liveData, currentGameweek, picks,
                   autoSubs, provisionalBonus, liveInfo, details, pc,
                   standings, managerData, gameweekDates, currentMonth,
                   currentView, fetches>>
    /\ UNCHANGED sessionVars

NextLeague ==
    \/ loadLeagueTable
    \/ fetchManagerData
    \/ loadLeagueShows
    \/ monthFilterChange
    \/ switchView
    \/ toggleFirstRow

SpecLeague == Init /\ [][NextLeague]_vars

----------------------------------------------------------------------------
(* refresh, by the refresh button or by the timer of startAutoRefresh *)

\* loadLeague on a league whose current gameweek opens a new month
loadLeagueOnce ==
    /\ pc = "constructed"
    /\ LoadLeagueUntilFetch(<< <<2026, 0, 17>>, <<2026, 0, 24>>,
                               <<2026, 1, 1>>, <<2026, 1, 2>> >>, <<2026, 1>>)

\* a request of a batch settles: it fails or returns the manager's team
fetchManagerDataAgain ==
    /\ fetches # << >>
    /\ \E k \in 1..Len(fetches) : \E e \in fetches[k].pending :
         \E response \in RefreshResponses(e) :
           ManagerFetchSettles(k, e, response)

\* the last request of loadLeague's batch settles; loadLeague shows the table
loadLeagueShowsOnce ==
    /\ pc = "loading"
    /\ \E k \in 1..Len(fetches) : \E e \in fetches[k].pending :
         \E response \in RefreshResponses(e) : CallerResumes(k, e, response)

\* refresh() up to the await of fetchManagerData: the gameweek, the live data
\* and the standings fetched again are stored, fetchManagerData has replaced
\* the map and started the requests of its batch
refresh ==
    /\ pc = "shown"
    /\ Len(fetches) < MaxInFlight
    /\ currentGameweek' = ActiveGameweek
    /\ liveData' = liveData
    /\ standings' = Some(LeagueMembers)
    /\ managerData' = << >>
    /\ fetches' = Append(fetches, FetchCall("refresh", LeagueMembers))
    /\ UNCHANGED <<players, fixtures, picks, autoSubs, provisionalBonus,
                   liveInfo, details, pc, gameweekDates, currentMonth,
                   currentView, expandedRows, scores>>
    /\ UNCHANGED sessionVars

\* the last request of a batch of refresh settles; refresh renders the table
refreshRenders ==
    /\ pc = "shown"
    /\ \E k \in 1..Len(fetches) : \E e \in fetches[k].pending :
         \E response \in RefreshResponses(e) : CallerResumes(k, e, response)

NextRefresh ==
    \/ loadLeagueOnce
    \/ fetchManagerDataAgain
    \/ loadLeagueShowsOnce
    \/ refresh
    \/ refreshRenders
    \/ monthFilterChange
    \/ toggleFirstRow

SpecRefresh == Init /\ [][NextRefresh]_vars

----------------------------------------------------------------------------
(* The session: loadLeague and refresh invocations that overlap, the       *)
(* auto-refresh timer, and the gameweek rolling over between refreshes.    *)
(* The data are reduced to where they come from: the gameweek of the       *)
(* endpoint that was asked and the invocation that asked.                  *)

\* at most this many invocations of loadLeague and refresh are started
MaxCalls == 3

\* CONFIG.DEFAULT_LEAGUE_ID, which loadStoredLeague puts in the input
DEFAULT_LEAGUE_ID == 539861

\* standings.standings.results of the league: the entries
SessionEntries == {1001, 1002}

\* the response of /event/${gameweek}/live/ to invocation id
LiveResponse(gameweek, id) == [ gameweek |-> gameweek, by |-> id ]

\* the response of /leagues-classic/${leagueId}/standings/ to invocation id
StandingsResponse(id) == [ results |-> SessionEntries, by |-> id ]

\* { history, picks } of a manager: the responses of /entry/${e}/history/ and
\* /entry/${e}/event/${gameweek}/picks/ to invocation id
ManagerDataResponse(gameweek, id) == [ gameweek |-> gameweek, by |-> id ]

\* an invocation in flight: where it awaits, the gameweek whose live data it
\* asked for, the gameweek whose picks it asked for, the standings it
\* received, the managers of its batch that have not settled, and the
\* invocations that were in flight when it started
Invocation(id, kind, gameweek) ==
    [ id |-> id, kind |-> kind, at |-> "fetching", gameweek |-> gameweek,
      picksGameweek |-> 0, standings |-> Undefined, pending |-> {},
      overlapped |-> { calls[k].id : k \in 1..Len(calls) } ]

\* the record of an invocation that returned
Returned(call, ok) ==
    [ id |-> call.id, kind |-> call.kind, ok |-> ok,
      overlapped |-> call.overlapped ]

\* stopAutoRefresh(): the timers left active
stopAutoRefreshKeeping(active, interval) == active

stopAutoRefresh(active, interval) ==
    IF interval # 0 THEN active \ {interval} ELSE active

\* the identifier setInterval returns: one that no active timer has
setInterval(active) == MinOf((1..(Cardinality(active) + 1)) \ active)

\* startAutoRefresh(): the timers active afterwards; this.refreshInterval
\* is the one added
startAutoRefresh(active, interval) ==
    stopAutoRefresh(active, interval)
      \cup { setInterval(stopAutoRefresh(active, interval)) }

\* what renderLeaderboard reads
Rendered(live, st, md) ==
    [ liveData |-> live, standings |-> st, managerData |-> md ]

\* the heavy snapshot of the families above is not part of the session
sessionFrame ==
    UNCHANGED <<players, fixtures, picks, autoSubs, provisionalBonus,
                liveInfo, details, pc, gameweekDates, currentMonth,
                currentView, expandedRows, fetches, cache, clock, requests,
                returned, unread>>

\* loadLeague() up to its first await, by the load button, the Enter key or
\* loadStoredLeague: the league id is stored and the four requests start
loadLeagueStarts ==
    /\ started < MaxCalls
    /\ leagueId' = Some(DEFAULT_LEAGUE_ID)
    /\ started' = started + 1
    /\ calls' = Append(calls, Invocation(started + 1, "loadLeague", 0))
    /\ UNCHANGED <<liveData, currentGameweek, standings, managerData, scores,
                   section, refreshInterval, timers, done, eventStatus>>
    /\ sessionFrame

\* the four responses have arrived: the gameweek is taken from event-status
\* and the live data of that gameweek are asked for
loadLeagueFetched ==
    \E k \in 1..Len(calls) :
      /\ calls[k].kind = "loadLeague"
      /\ calls[k].at = "fetching"
      /\ currentGameweek' = eventStatus
      /\ calls' = [ calls EXCEPT ![k].at = "live",
                                 ![k].gameweek = eventStatus,
                                 ![k].standings =
                                   Some(StandingsResponse(calls[k].id)) ]
      /\ UNCHANGED <<liveData, standings, managerData, scores, leagueId,
                     section, refreshInterval, timers, started, done,
                     eventStatus>>
      /\ sessionFrame

\* the live data have arrived: they are stored and fetchManagerData replaces
\* the map and asks for the data of every manager of its batch
loadLeagueStoresLive ==
    \E k \in 1..Len(calls) :
      /\ calls[k].kind = "loadLeague"
      /\ calls[k].at = "live"
      /\ liveData' = Some(LiveResponse(calls[k].gameweek, calls[k].id))
      /\ managerData' = << >>
      /\ calls' = [ calls EXCEPT ![k].at = "managers",
                                 ![k].picksGameweek = currentGameweek,
                                 ![k].pending = SessionEntries ]
      /\ UNCHANGED <<currentGameweek, standings, scores, leagueId, section,
                     refreshInterval, timers, started, done, eventStatus>>
      /\ sessionFrame

\* refresh() up to its first await, by the refresh button or by a timer:
\* nothing without a league id; the three requests start, the live data
\* asked for are those of this.currentGameweek
refreshStarts ==
    /\ IsDefined(leagueId)
    /\ started < MaxCalls
    /\ started' = started + 1
    /\ calls' = Append(calls,
                       Invocation(started + 1, "refresh", currentGameweek))
    /\ UNCHANGED <<liveData, currentGameweek, standings, managerData, scores,
                   leagueId, section, refreshInterval, timers, done,
                   eventStatus>>
    /\ sessionFrame

\* the three responses have arrived: the gameweek, the live data and the
\* standings are stored and fetchManagerData replaces the map and asks for
\* the data of every manager of its batch
refreshFetched ==
    \E k \in 1..Len(calls) :
      /\ calls[k].kind = "refresh"
      /\ calls[k].at = "fetching"
      /\ currentGameweek' = eventStatus
      /\ liveData' = Some(LiveResponse(calls[k].gameweek, calls[k].id))
      /\ standings' = Some(StandingsResponse(calls[k].id))
      /\ managerData' = << >>
      /\ calls' = [ calls EXCEPT ![k].at = "managers",
                                 ![k].picksGameweek = eventStatus,
                                 ![k].pending = SessionEntries ]
      /\ UNCHANGED <<scores, leagueId, section, refreshInterval, timers,
                     started, done, eventStatus>>
      /\ sessionFrame

\* this.managerData after the requests of manager e of invocation call have
\* settled: set(entry, { history, picks }), or the failure is logged
ManagerDataAfter(call, e, ok) ==
    IF ok
    THEN [ x \in DOMAIN managerData \cup {e} |->
             IF x = e THEN ManagerDataResponse(call.picksGameweek, call.id)
             ELSE managerData[x] ]
    ELSE managerData

\* the requests of a manager settle while others of the batch are pending
managerSettles ==
    \E k \in 1..Len(calls) : \E e \in calls[k].pending : \E ok \in BOOLEAN :
      /\ calls[k].at = "managers"
      /\ calls[k].pending # {e}
      /\ managerData' = ManagerDataAfter(calls[k], e, ok)
      /\ calls' = [ calls EXCEPT ![k].pending = @ \ {e} ]
      /\ UNCHANGED <<liveData, currentGameweek, standings, scores, leagueId,
                     section, refreshInterval, timers, started, done,
                     eventStatus>>
      /\ sessionFrame

\* the last manager of the batch of a loadLeague settles: the standings are
\* stored, the table is rendered and displayed, startAutoRefresh()
loadLeagueReturns ==
    \E k \in 1..Len(calls) : \E e \in calls[k].pending : \E ok \in BOOLEAN :
      /\ calls[k].kind = "loadLeague"
      /\ calls[k].at = "managers"
      /\ calls[k].pending = {e}
      /\ managerData' = ManagerDataAfter(calls[k], e, ok)
      /\ standings' = calls[k].standings
      /\ scores' = Some(Rendered(liveData, standings', managerData'))
      /\ section' = "leaderboard"
      /\ timers' = startAutoRefresh(timers, refreshInterval)
      /\ refreshInterval' =
           setInterval(stopAutoRefresh(timers, refreshInterval))
      /\ calls' = RemoveAt(calls, k)
      /\ done' = done \cup { Returned(calls[k], TRUE) }
      /\ UNCHANGED <<liveData, currentGameweek, leagueId, started,
                     eventStatus>>
      /\ sessionFrame

\* the last manager of the batch of a refresh settles: the table is rendered
refreshReturns ==
    \E k \in 1..Len(calls) : \E e \in calls[k].pending : \E ok \in BOOLEAN :
      /\ calls[k].kind = "refresh"
      /\ calls[k].at = "managers"
      /\ calls[k].pending = {e}
      /\ managerData' = ManagerDataAfter(calls[k], e, ok)
      /\ scores' = Some(Rendered(liveData, standings, managerData'))
      /\ calls' = RemoveAt(calls, k)
      /\ done' = done \cup { Returned(calls[k], TRUE) }
      /\ UNCHANGED <<liveData, currentGameweek, standings, leagueId, section,
                     refreshInterval, timers, started, eventStatus>>
      /\ sessionFrame

\* a request awaited outside fetchManagerData fails: the catch block of
\* loadLeague shows the error, that of refresh logs it
invocationFails ==
    \E k \in 1..Len(calls) :
      /\ calls[k].at \in {"fetching", "live"}
      /\ calls' = RemoveAt(calls, k)
      /\ done' = done \cup { Returned(calls[k], FALSE) }
      /\ UNCHANGED <<liveData, currentGameweek, standings, managerData,
                     scores, leagueId, section, refreshInterval, timers,
                     started, eventStatus>>
      /\ sessionFrame

\* showSetup(), by the change-league button of the leaderboard section
showSetup ==
    /\ section = "leaderboard"
    /\ section' = "setup"
    /\ timers' = stopAutoRefresh(timers, refreshInterval)
    /\ refreshInterval' = 0
    /\ UNCHANGED <<liveData, currentGameweek, standings, managerData, scores,
                   leagueId, calls, started, done, eventStatus>>
    /\ sessionFrame

\* upstream, the next gameweek becomes the active one
gameweekRollsOver ==
    /\ eventStatus = ActiveGameweek
    /\ eventStatus' = ActiveGameweek + 1
    /\ UNCHANGED <<liveData, currentGameweek, standings, managerData, scores,
                   leagueId, section, refreshInterval, timers, calls, started,
                   done>>
    /\ sessionFrame

NextSession ==
    \/ loadLeagueStarts
    \/ loadLeagueFetched
    \/ loadLeagueStoresLive
    \/ refreshStarts
    \/ refreshFetched
    \/ managerSettles
    \/ loadLeagueReturns
    \/ refreshReturns
    \/ invocationFails
    \/ showSetup
    \/ gameweekRollsOver

SpecSession == Init /\ [][NextSession]_vars

\* the invocations that start and stop the timer: loadLeague and showSetup
NextTimer ==
    \/ loadLeagueStarts
    \/ loadLeagueFetched
    \/ loadLeagueStoresLive
    \/ managerSettles
    \/ loadLeagueReturns
    \/ invocationFails
    \/ showSetup

SpecTimer == Init /\ [][NextTimer]_vars

----------------------------------------------------------------------------
(* fetchWithCache and the cache: the reads of loadLeague, refresh and       *)
(* fetchManagerData, the deletions of refresh, the clock                    *)

\* the clock advances at most this many times
MaxTicks == 2
\* at most this many calls of fetchWithCache are made
MaxReads == 5

\* the milliseconds between two readings of the clock
Tick == 30 * 1000

\* CONFIG.CACHE: the time to live of each kind of data, in milliseconds
CACHE == [ BOOTSTRAP |-> 5 * 60 * 1000,
           LIVE_DATA |-> 30 * 1000,
           FIXTURES |-> 5 * 60 * 1000,
           STANDINGS |-> 60 * 1000,
           MANAGER_DATA |-> 60 * 1000 ]

\* a cache key: `${kind}`, `${kind}-${of}` or `picks-${of}-${gameweek}`
CacheKey(kind, of, gameweek) ==
    [ kind |-> kind, of |-> of, gameweek |-> gameweek ]

\* the keys of the fetchers
EventStatusKey == CacheKey("event-status", 0, 0)
LiveKey(gameweek) == CacheKey("live", 0, gameweek)
StandingsKey(league) == CacheKey("standings", league, 0)
HistoryKey(e) == CacheKey("history", e, 0)
PicksKey(e, gameweek) == CacheKey("picks", e, gameweek)

\* the ttl each fetcher passes to fetchWithCache
TtlOf(key) ==
    CASE key.kind = "bootstrap" -> CACHE.BOOTSTRAP
      [] key.kind = "fixtures" -> CACHE.FIXTURES
      [] key.kind = "event-status" -> CACHE.LIVE_DATA
      [] key.kind = "live" -> CACHE.LIVE_DATA
      [] key.kind = "standings" -> CACHE.STANDINGS
      [] key.kind = "history" -> CACHE.MANAGER_DATA
      [] key.kind = "picks" -> CACHE.LIVE_DATA

\* cached && (now - cached.timestamp) < ttl
HitsCache(c, key, now) ==
    /\ key \in DOMAIN c
    /\ now - c[key].timestamp < TtlOf(key)

\* this.cache.set(cacheKey, { data, timestamp }) on the map c
CacheSet(c, key, data, timestamp) ==
    [ x \in DOMAIN c \cup {key} |->
        IF x = key THEN [ data |-> data, timestamp |-> timestamp ]
        ELSE c[x] ]

\* this.cache.delete(key) for every key of keys on the map c
CacheDelete(c, keys) == [ x \in DOMAIN c \ keys |-> c[x] ]

\* a call of fetchAPI in flight: made by call id of fetchWithCache for key,
\* which read the clock as now; of is the manager whose callback made it
Request(id, key, now) == [ id |-> id, key |-> key, now |-> now ]

\* what a call of fetchWithCache gave: the data, and where from
Return(id, key, from, data) ==
    [ id |-> id, key |-> key, from |-> from, data |-> data ]

\* the cache, the requests and the calls; s is a record of these fields
CacheState ==
    [ cache |-> cache, requests |-> requests, started |-> started,
      returned |-> returned, unread |-> unread ]

\* fetchWithCache(endpoint, key, ttl) up to its return or its await, on the
\* state s at time now
fetchWithCache(s, key, now) ==
    IF HitsCache(s.cache, key, now)
    THEN [ s EXCEPT !.started = @ + 1,
                    !.returned = Some(Return(s.started + 1, key, "cache",
                                             s.cache[key].data)),
                    !.unread = @ \ {key} ]
    ELSE [ s EXCEPT !.started = @ + 1,
                    !.requests = @ \cup { Request(s.started + 1, key, now) },
                    !.unread = @ \ {key} ]

\* the state s becomes the state
Becomes(s) ==
    /\ cache' = s.cache
    /\ requests' = s.requests
    /\ started' = s.started
    /\ returned' = s.returned
    /\ unread' = s.unread

\* what the cache family leaves alone
cacheFrame ==
    UNCHANGED <<players, fixtures, liveData, currentGameweek, picks,
                autoSubs, provisionalBonus, liveInfo, details, pc, standings,
                managerData, gameweekDates, currentMonth, currentView,
                expandedRows, fetches, scores, leagueId, section,
                refreshInterval, timers, calls, done, eventStatus>>

\* the keys of the league of one manager in the active gameweek
ManagerKeys == { HistoryKey(ManagerEntry), PicksKey(ManagerEntry, ActiveGameweek) }
LeagueKeys == { EventStatusKey }

\* a loadLeague in flight calls one of its fetchers
loadLeagueReads ==
    /\ started < MaxReads
    /\ \E key \in LeagueKeys : Becomes(fetchWithCache(CacheState, key, clock))
    /\ UNCHANGED clock
    /\ cacheFrame

\* a callback of a fetchManagerData in flight calls fetchManagerHistory or
\* fetchManagerPicks
fetchManagerDataReads ==
    /\ started < MaxReads
    /\ \E key \in ManagerKeys : Becomes(fetchWithCache(CacheState, key, clock))
    /\ UNCHANGED clock
    /\ cacheFrame

\* the keys refresh deletes
RefreshDeletes ==
    { LiveKey(ActiveGameweek), StandingsKey(DEFAULT_LEAGUE_ID), EventStatusKey,
      PicksKey(ManagerEntry, ActiveGameweek) }

\* refresh() up to its await: the deletions, then fetchEventStatus,
\* fetchLeagueStandings and fetchLiveData
refreshDeletesAndReads ==
    /\ started + 3 <= MaxReads
    /\ LET deleted == [ CacheState EXCEPT
                          !.cache = CacheDelete(@, RefreshDeletes),
                          !.unread = @ \cup RefreshDeletes ]
           first == fetchWithCache(deleted, EventStatusKey, clock)
           second == fetchWithCache(first, StandingsKey(DEFAULT_LEAGUE_ID),
                                    clock)
       IN Becomes(fetchWithCache(second, LiveKey(ActiveGameweek), clock))
    /\ UNCHANGED clock
    /\ cacheFrame

\* the response of a request arrives: the data are stored with the time the
\* call began and returned
responseArrives ==
    /\ \E q \in requests :
         /\ cache' = CacheSet(cache, q.key, q.id, q.now)
         /\ requests' = requests \ {q}
         /\ returned' = Some(Return(q.id, q.key, "upstream", q.id))
    /\ UNCHANGED <<started, unread, clock>>
    /\ cacheFrame

\* a request fails: fetchAPI throws and fetchWithCache with it
requestFails ==
    /\ \E q \in requests :
         /\ requests' = requests \ {q}
         /\ returned' = Some(Return(q.id, q.key, "error", 0))
    /\ UNCHANGED <<cache, started, unread, clock>>
    /\ cacheFrame

\* time passes
tick ==
    /\ clock < MaxTicks * Tick
    /\ clock' = clock + Tick
    /\ UNCHANGED <<cache, requests, started, returned, unread>>
    /\ cacheFrame

NextCache ==
    \/ loadLeagueReads
    \/ fetchManagerDataReads
    \/ refreshDeletesAndReads
    \/ responseArrives
    \/ requestFails
    \/ tick

SpecCache == Init /\ [][NextCache]_vars

----------------------------------------------------------------------------
(* fetchManagerData: the batches and the requests of their callbacks *)

\* CONFIG.MAX_CONCURRENT_REQUESTS, the size of a batch, scaled down
MAX_CONCURRENT_REQUESTS == 2
\* fetchManagerData is called at most this many times
MaxRuns == 1

\* the managers fetchManagerData is called with
BatchManagers == [ k \in 1..Len(LeagueMembers) |-> LeagueMembers[k].entry ]

\* a call of fetchManagerData in flight: i is where its batch starts,
\* unsettled the managers of the batch whose callback has not settled,
\* waiting the fetchWithCache calls each of these callbacks awaits
Run(id) ==
    [ id |-> id, kind |-> "fetchManagerData", overlapped |-> {},
      i |-> 1, unsettled |-> {}, waiting |-> << >> ]

\* the callback of manager e runs up to its await: fetchManagerHistory and
\* fetchManagerPicks are called; when both are served by the cache the
\* callback stores the data at once.  b holds the state s of the cache, the
\* map md and the call run
StartCallback(b, e, now) ==
    LET first == fetchWithCache(b.s, HistoryKey(e), now)
        second == fetchWithCache(first, PicksKey(e, currentGameweek), now)
        asked == { q.id : q \in second.requests \ b.s.requests }
    IN IF asked = {}
       THEN [ b EXCEPT !.s = second,
                       !.md = [ x \in DOMAIN b.md \cup {e} |->
                                  IF x = e
                                  THEN ManagerDataResponse(currentGameweek,
                                                           b.run.id)
                                  ELSE b.md[x] ] ]
       ELSE [ b EXCEPT !.s = second,
                       !.run.unsettled = @ \cup {e},
                       !.run.waiting = [ x \in DOMAIN @ \cup {e} |->
                                           IF x = e THEN asked ELSE @[x] ] ]

\* batch.map(callback) from manager k of the list to the end of the batch
RECURSIVE StartBatch(_, _, _)
StartBatch(b, k, now) ==
    IF k > Len(BatchManagers) \/ k >= b.run.i + MAX_CONCURRENT_REQUESTS
    THEN b
    ELSE StartBatch(StartCallback(b, BatchManagers[k], now), k + 1, now)

\* the loop of fetchManagerData from the batch at run.i up to the next await
\* that does not resolve at once, or to its end (run.i beyond the list)
RECURSIVE RunBatches(_, _)
RunBatches(b, now) ==
    IF b.run.i > Len(BatchManagers)
    THEN b
    ELSE LET begun == StartBatch([ b EXCEPT !.run.waiting = << >> ],
                                 b.run.i, now)
         IN IF begun.run.unsettled = {}
            THEN RunBatches([ begun EXCEPT
                                !.run.i = @ + MAX_CONCURRENT_REQUESTS ], now)
            ELSE begun

\* the loop goes on from b when no callback of the batch is unsettled
Resume(b, now) ==
    IF b.run.unsettled = {}
    THEN RunBatches([ b EXCEPT !.run.i = @ + MAX_CONCURRENT_REQUESTS ], now)
    ELSE b

\* the state b becomes the state: fetchManagerData has returned when run.i
\* is beyond the list
BatchBecomes(b) ==
    /\ Becomes(b.s)
    /\ managerData' = b.md
    /\ IF b.run.i > Len(BatchManagers)
       THEN /\ calls' = << >>
            /\ done' = done \cup { Returned(b.run, TRUE) }
       ELSE /\ calls' = << b.run >>
            /\ UNCHANGED done

\* what the family of the batches leaves alone
batchFrame ==
    UNCHANGED <<players, fixtures, liveData, picks, autoSubs,
                provisionalBonus, liveInfo, details, pc, standings,
                gameweekDates, currentMonth, currentView, expandedRows,
                fetches, scores, leagueId, section, refreshInterval, timers,
                eventStatus, clock>>

\* loadLeague or refresh has stored the gameweek and calls fetchManagerData:
\* the map is replaced and the first batch starts
fetchManagerDataStarts ==
    /\ calls = << >>
    /\ Cardinality(done) < MaxRuns
    /\ currentGameweek = eventStatus
    /\ BatchBecomes(RunBatches([ s |-> CacheState, md |-> << >>,
                                 run |-> Run(Cardinality(done) + 1) ], clock))
    /\ UNCHANGED currentGameweek
    /\ batchFrame

\* the gameweek loadLeague takes from event-status
gameweekStored ==
    /\ calls = << >>
    /\ currentGameweek # eventStatus
    /\ currentGameweek' = eventStatus
    /\ UNCHANGED <<managerData, calls, done, cache, requests, started,
                   returned, unread>>
    /\ batchFrame

\* the callback that awaits request q, if it has not settled
AwaitedBy(q) ==
    IF calls = << >> THEN {}
    ELSE { e \in calls[1].unsettled : q.id \in calls[1].waiting[e] }

\* the response of request q arrives: it is stored in the cache; the callback
\* that awaited it, once it awaits nothing, stores the manager's data and
\* settles; the loop goes on when the batch has settled
managerResponseArrives ==
    \E q \in requests :
      LET s == [ CacheState EXCEPT
                   !.cache = CacheSet(@, q.key, q.id, q.now),
                   !.requests = @ \ {q},
                   !.returned = Some(Return(q.id, q.key, "upstream", q.id)) ]
      IN /\ IF AwaitedBy(q) = {}
            THEN /\ Becomes(s)
                 /\ UNCHANGED <<managerData, calls, done>>
            ELSE LET e == CHOOSE x \in AwaitedBy(q) : TRUE
                     left == calls[1].waiting[e] \ {q.id}
                     b == [ s |-> s, md |-> managerData, run |-> calls[1] ]
                 IN IF left # {}
                    THEN BatchBecomes([ b EXCEPT !.run.waiting[e] = left ])
                    ELSE BatchBecomes(Resume(
                           [ b EXCEPT
                               !.run.waiting[e] = {},
                               !.run.unsettled = @ \ {e},
                               !.md = [ x \in DOMAIN managerData \cup {e} |->
                                          IF x = e
                                          THEN ManagerDataResponse(
                                                 currentGameweek, calls[1].id)
                                          ELSE managerData[x] ] ], clock))
         /\ UNCHANGED currentGameweek
         /\ batchFrame

\* request q fails: Promise.all of the callback that awaited it rejects, the
\* callback logs the failure and settles, whatever else it awaited; the loop
\* goes on when the batch has settled
managerRequestFails ==
    \E q \in requests :
      LET s == [ CacheState EXCEPT
                   !.requests = @ \ {q},
                   !.returned = Some(Return(q.id, q.key, "error", 0)) ]
      IN /\ IF AwaitedBy(q) = {}
            THEN /\ Becomes(s)
                 /\ UNCHANGED <<managerData, calls, done>>
            ELSE LET e == CHOOSE x \in AwaitedBy(q) : TRUE
                     b == [ s |-> s, md |-> managerData, run |-> calls[1] ]
                 IN BatchBecomes(Resume([ b EXCEPT
                                            !.run.unsettled = @ \ {e} ],
                                        clock))
         /\ UNCHANGED currentGameweek
         /\ batchFrame

NextBatch ==
    \/ gameweekStored
    \/ fetchManagerDataStarts
    \/ managerResponseArrives
    \/ managerRequestFails
    \/ tick

SpecBatch == Init /\ [][NextBatch]_vars

----------------------------------------------------------------------------
(* Properties *)

Resolved == pc \in {"scored", "detailed"}
\* the substitutions in autoSubs were computed locally
LocallyResolved == Resolved /\ ~HasUpstreamSubs(picks[1])

Roster == picks[1].picks
PositionOf(e) == CHOOSE i \in 1..Len(Roster) : Roster[i].element = e
TypeOf(e) == PlayerOf(e).element_type

\* the teams whose fixture of the current gameweek is over, read from fixtures
TeamsFinished ==
    { t \in 1..10 : \E k \in 1..Len(fixtures[1]) :
        /\ fixtures[1][k].event = currentGameweek
        /\ (fixtures[1][k].team_h = t \/ fixtures[1][k].team_a = t)
        /\ (fixtures[1][k].finished \/ fixtures[1][k].finished_provisional) }
TeamsStarted ==
    { t \in 1..10 : \E k \in 1..Len(fixtures[1]) :
        /\ fixtures[1][k].event = currentGameweek
        /\ (fixtures[1][k].team_h = t \/ fixtures[1][k].team_a = t)
        /\ fixtures[1][k].started }

\* C1: a bench candidate of the role of the player-out whose fixture has not
\* started halts the search: no later bench candidate is the player-in of a
\* confirmed substitution of that starter
C1_NotStartedCandidateHalts ==
    LocallyResolved =>
        \A k \in 1..Len(autoSubs) :
            ~\E j \in BenchPositions(picks[1]) :
                /\ j < PositionOf(autoSubs[k].element_in)
                /\ PlayerOf(Roster[j].element).team \notin TeamsStarted
                /\ TypeOf(Roster[j].element) = TypeOf(autoSubs[k].element_out)

\* C2: the player-in of every locally confirmed substitution has minutes > 0
C2_PlayerInHasPlayed ==
    LocallyResolved =>
        \A k \in 1..Len(autoSubs) :
            liveData[1][autoSubs[k].element_in].minutes > 0

\* the formation minimum of the outfield roles
FormationMinimum ==
    [ r \in OutfieldRoles |-> IF r = RoleDEF THEN 3 ELSE IF r = RoleMID THEN 2 ELSE 1 ]

\* starters of role r that do not need a substitution, plus the replacements
\* of role r confirmed before the k-th substitution
LiveCountBefore(r, k) ==
    Cardinality({ i \in StartingPositions(picks[1]) :
        /\ TypeOf(Roster[i].element) = r
        /\ ~(/\ liveData[1][Roster[i].element].minutes = 0
             /\ PlayerOf(Roster[i].element).team \in TeamsFinished) })
    + Cardinality({ q \in 1..(k - 1) : TypeOf(autoSubs[q].element_in) = r })

\* C3: an outfield starter whose role has a live count at or below the
\* formation minimum is replaced by a player of the same role
C3_SameRoleAtMinimum ==
    LocallyResolved =>
        \A k \in 1..Len(autoSubs) :
            LET r == TypeOf(autoSubs[k].element_out)
            IN (r \in OutfieldRoles /\ LiveCountBefore(r, k) <= FormationMinimum[r])
                  => TypeOf(autoSubs[k].element_in) = r

\* the players of the fixture of e other than e who played
FixtureMates(e) ==
    { x \in DOMAIN liveData[1] :
        /\ x # e
        /\ liveData[1][x].minutes > 0
        /\ \E k \in 1..Len(fixtures[1]) :
              /\ fixtures[1][k].event = currentGameweek
              /\ PlayerOf(e).team \in {fixtures[1][k].team_h, fixtures[1][k].team_a}
              /\ PlayerOf(x).team \in {fixtures[1][k].team_h, fixtures[1][k].team_a} }

AllDetails == details[1].starting \o details[1].bench

\* C4: once a player of a fixture has official bonus > 0, a player of that
\* fixture without official bonus scores his base points only
C4_OfficialBonusSwitchesFixture ==
    pc = "detailed" =>
        \A i \in 1..Len(AllDetails) :
            LET e == AllDetails[i].id
            IN (/\ liveData[1][e].bonus = 0
                /\ \E x \in FixtureMates(e) : liveData[1][x].bonus > 0)
                  => /\ AllDetails[i].bonusPoints = 0
                     /\ AllDetails[i].points = liveData[1][e].total_points

\* the eligible players of the fixture of e with a strictly higher BPS
HigherRanked(e) ==
    { x \in FixtureMates(e) : liveData[1][x].bps > liveData[1][e].bps }

\* C5: a player who played gets 3 - k when k <= 2 players of his fixture who
\* played have a strictly higher BPS, and nobody else is in the allocation
C5_BonusByStrictRank ==
    Resolved =>
        \A e \in DOMAIN liveData[1] :
            IF /\ liveData[1][e].minutes > 0
               /\ PlayerOf(e).team \in TeamsStarted
               /\ Cardinality(HigherRanked(e)) <= 2
            THEN /\ e \in DOMAIN provisionalBonus
                 /\ provisionalBonus[e] = 3 - Cardinality(HigherRanked(e))
            ELSE e \notin DOMAIN provisionalBonus

\* BPS 10,10,8,8,8,5 gives 3,3,1,1,1 and nobody gets 2
C5_Witness ==
    /\ Resolved
    /\ \A e \in 1..6 : liveData[1][e].minutes > 0
    /\ <<liveData[1][1].bps, liveData[1][2].bps, liveData[1][3].bps,
         liveData[1][4].bps, liveData[1][5].bps, liveData[1][6].bps>>
         = <<10, 10, 8, 8, 8, 5>>
    /\ DOMAIN provisionalBonus = 1..5
    /\ provisionalBonus = <<3, 3, 1, 1, 1>>

\* the provisional bonus of e, 0 when e is not in the allocation
ProvisionalOf(e) ==
    IF e \in DOMAIN provisionalBonus THEN provisionalBonus[e] ELSE 0

C7_BenchBoostNoSubstitutions ==
    Resolved =>
        IF picks[1].active_chip = "bboost"
        THEN /\ autoSubs = << >>
             /\ liveInfo[1].maxPlayers = Some(15)
             /\ \A i \in 1..Len(Roster) : IsActive(picks[1], autoSubs, i)
        ELSE liveInfo[1].maxPlayers = Some(11)

\* C8: the upstream list is returned unchanged exactly when it is present
\* and non-empty, and the local resolution otherwise
C8_UpstreamListVerbatim ==
    Resolved =>
        IF Len(picks[1].automatic_subs) = 1 /\ picks[1].automatic_subs[1] # << >>
        THEN autoSubs = picks[1].automatic_subs[1]
        ELSE autoSubs = LocalAutoSubs(picks[1])

\* the upstream list is returned although the local resolution differs
C8_Witness ==
    /\ Resolved
    /\ Len(picks[1].automatic_subs) = 1
    /\ Len(picks[1].automatic_subs[1]) > 0
    /\ autoSubs = picks[1].automatic_subs[1]
    /\ LocalAutoSubs(picks[1]) # autoSubs

\* starters with 0 minutes
ZeroMinuteStarters ==
    { i \in StartingPositions(picks[1]) : liveData[1][Roster[i].element].minutes = 0 }

\* C9: the player-out of a local substitution is a starter with 0 minutes
\* whose fixture is finished or finished provisionally; a starter with 0
\* minutes whose fixture is not finished is not substituted and is counted
\* in the formation counts
C9_OnlyFinishedFixturesTrigger ==
    LocallyResolved =>
        /\ \A k \in 1..Len(autoSubs) :
              /\ PositionOf(autoSubs[k].element_out) \in ZeroMinuteStarters
              /\ PlayerOf(autoSubs[k].element_out).team \in TeamsFinished
        /\ \A r \in {RoleGK} \cup OutfieldRoles :
              InitialFormationCount(picks[1])[r] = LiveCountBefore(r, 1)

\* a starter with 0 minutes in an unfinished fixture stays while another
\* starter is substituted
C9_Witness ==
    /\ LocallyResolved
    /\ autoSubs # << >>
    /\ \E i \in ZeroMinuteStarters :
          /\ PlayerOf(Roster[i].element).team \notin TeamsFinished
          /\ Roster[i].element \notin SubbedOut(autoSubs)

\* C10: after local resolution each bench player is the player-in of at most
\* one substitution and each starter the player-out of at most one
C10_OneSubstitutionPerPlayer ==
    LocallyResolved =>
        \A k1, k2 \in 1..Len(autoSubs) :
            k1 # k2 => /\ autoSubs[k1].element_in # autoSubs[k2].element_in
                       /\ autoSubs[k1].element_out # autoSubs[k2].element_out

\* two starters were substituted
C10_Witness ==
    LocallyResolved /\ Len(autoSubs) >= 2

\* C11: a starting goalkeeper is replaced only by the pick of bench slot 12,
\* and a bench goalkeeper is never the player-in for an outfield starter
C11_GoalkeeperForGoalkeeper ==
    LocallyResolved =>
        \A k \in 1..Len(autoSubs) :
            /\ TypeOf(autoSubs[k].element_out) = RoleGK
                  => PositionOf(autoSubs[k].element_in) = StartingSize + 1
            /\ TypeOf(autoSubs[k].element_in) = RoleGK
                  => TypeOf(autoSubs[k].element_out) = RoleGK

\* the goalkeeper is replaced by slot 12 while an outfield starter is
\* replaced too
C11_Witness ==
    /\ LocallyResolved
    /\ Len(autoSubs) >= 2
    /\ \E k \in 1..Len(autoSubs) :
          /\ TypeOf(autoSubs[k].element_out) = RoleGK
          /\ PositionOf(autoSubs[k].element_in) = StartingSize + 1

\* starting positions whose player has 0 minutes in a finished fixture
NeedyStarters ==
    { i \in ZeroMinuteStarters : PlayerOf(Roster[i].element).team \in TeamsFinished }

\* the substitutions confirmed for the starters before position i
SubsBefore(i) ==
    { q \in 1..Len(autoSubs) : PositionOf(autoSubs[q].element_out) < i }

\* live count of role r when the starter at position i is resolved
LiveCountAt(r, i) ==
    Cardinality({ j \in StartingPositions(picks[1]) \ NeedyStarters :
                    TypeOf(Roster[j].element) = r })
    + Cardinality({ q \in SubsBefore(i) : TypeOf(autoSubs[q].element_in) = r })

\* bench positions of the role of starter i not yet allocated and not known to
\* have missed their finished fixture
SameRoleCandidates(i) ==
    { j \in BenchPositions(picks[1]) :
        /\ TypeOf(Roster[j].element) = TypeOf(Roster[i].element)
        /\ Roster[j].element \notin { autoSubs[q].element_in : q \in SubsBefore(i) }
        /\ ~(/\ liveData[1][Roster[j].element].minutes = 0
             /\ PlayerOf(Roster[j].element).team \in TeamsFinished) }

\* C12: under an active role constraint the candidates of another role are
\* skipped whatever their fixture state: when the first remaining candidate
\* of the required role has played, he is the confirmed replacement
C12_MismatchSkippedUnderConstraint ==
    LocallyResolved =>
        \A i \in NeedyStarters :
            LET r == TypeOf(Roster[i].element)
                cands == SameRoleCandidates(i)
            IN (/\ r \in OutfieldRoles
                /\ LiveCountAt(r, i) <= FormationMinimum[r]
                /\ cands # {}
                /\ liveData[1][Roster[MinOf(cands)].element].minutes > 0)
                  => \E k \in 1..Len(autoSubs) :
                        /\ autoSubs[k].element_out = Roster[i].element
                        /\ autoSubs[k].element_in = Roster[MinOf(cands)].element

\* C13: a slot counts exactly when it is a starting slot that is not the
\* player-out of a substitution, or a bench slot whose player is the player-in
\* of a substitution, or a bench slot under bench boost
C13_CountingSlots ==
    pc = "detailed" =>
        \A i \in 1..Len(AllDetails) :
            AllDetails[i].pointsCount <=>
                \/ /\ i <= 11
                   /\ ~\E k \in 1..Len(autoSubs) : autoSubs[k].element_out = Roster[i].element
                \/ /\ i > 11
                   /\ \E k \in 1..Len(autoSubs) : autoSubs[k].element_in = Roster[i].element
                \/ /\ i > 11
                   /\ picks[1].active_chip = "bboost"

\* without bench boost, a starter is substituted: his slot does not count, the
\* slot of his replacement does, another bench slot does not
C13_Witness ==
    /\ pc = "detailed"
    /\ picks[1].active_chip # "bboost"
    /\ \E i \in 1..11 : ~AllDetails[i].pointsCount
    /\ \E i, j \in 12..15 : AllDetails[i].pointsCount /\ ~AllDetails[j].pointsCount

\* the counting slots whose player has minutes > 0
PlayedCountingSlots ==
    { i \in 1..Len(AllDetails) :
        AllDetails[i].pointsCount /\ liveData[1][AllDetails[i].id].minutes > 0 }

\* C14: the roster total is the sum of the effective points of the counting
\* slots whose player has minutes > 0, and played is the number of those slots
C14_TotalOverPlayedCountingSlots ==
    pc = "detailed" =>
        /\ liveInfo[1].livePoints =
              SumOver([ i \in PlayedCountingSlots |-> AllDetails[i].effectivePoints ],
                      PlayedCountingSlots)
        /\ liveInfo[1].played = Cardinality(PlayedCountingSlots)

\* a counting slot with 0 minutes and a slot that played but does not count
C14_Witness ==
    /\ pc = "detailed"
    /\ liveInfo[1].livePoints > 0
    /\ \E i \in 1..Len(AllDetails) :
          AllDetails[i].pointsCount /\ liveData[1][AllDetails[i].id].minutes = 0
    /\ \E i \in 1..Len(AllDetails) :
          /\ ~AllDetails[i].pointsCount
          /\ liveData[1][AllDetails[i].id].minutes > 0
          /\ liveData[1][AllDetails[i].id].total_points > 0

\* C15: captain info is the name of the player of the captain slot and
\* whether his minutes are > 0, whether or not the captain slot counts
C15_CaptainInfo ==
    Resolved =>
        \A i \in 1..Len(Roster) :
            Roster[i].is_captain =>
                /\ liveInfo[1].captainName = Some(PlayerOf(Roster[i].element).web_name)
                /\ liveInfo[1].captainPlayed
                      <=> liveData[1][Roster[i].element].minutes > 0

----------------------------------------------------------------------------
(* The league table *)

\* the rows of the table rendered last
Rows == IF IsDefined(scores) THEN scores[1] ELSE << >>

\* the gameweeks of the selected period
Period == getGameweeksForMonth(currentMonth[1])

\* the confirmed points of manager e in gameweek gw
ConfirmedPoints(e, gw) ==
    LET history == managerData[e].history
        at == { k \in 1..Len(history) : history[k].event = gw }
    IN SumOver([ k \in at |-> history[k].points ], at)

\* the place of manager e in standings.results
InputIndex(e) == CHOOSE k \in 1..Len(standings[1]) : standings[1][k].entry = e

\* C16: the period total of a manager with data is the sum of his confirmed
\* points over the gameweeks of the period other than the current one, plus
\* his live total of the current gameweek iff that gameweek is in the period;
\* his confirmed points of the current gameweek are never added
C16_PeriodTotal ==
    pc = "shown" =>
      \A k \in 1..Len(Rows) :
        LET r == Rows[k]
            past == Period \ {currentGameweek}
        IN r.entry \in DOMAIN managerData =>
             r.monthlyPoints =
               SumOver([ gw \in past |-> ConfirmedPoints(r.entry, gw) ], past)
               + (IF currentGameweek \in Period THEN r.gameweekPoints ELSE 0)

\* a table whose period is the previous and the current gameweek, with a
\* manager who had 50 points in the previous one and whose live total is not
\* what the upstream history says of the current one
C16_Witness ==
    /\ pc = "shown"
    /\ Period = {ActiveGameweek - 1, ActiveGameweek}
    /\ \E k \in 1..Len(Rows) :
         /\ Rows[k].entry \in DOMAIN managerData
         /\ ConfirmedPoints(Rows[k].entry, ActiveGameweek - 1) = 50
         /\ Rows[k].gameweekPoints > 0
         /\ Rows[k].gameweekPoints # ConfirmedPoints(Rows[k].entry, ActiveGameweek)
         /\ Rows[k].monthlyPoints = 50 + Rows[k].gameweekPoints

\* the three sort keys of a row in the selected view
SortKey(r) ==
    << IF currentView = "monthly" THEN r.monthlyPoints ELSE r.gameweekPoints,
       r.gameweekPoints, r.total >>

\* key a is greater than key b, the first keys first
KeyGreater(a, b) ==
    \/ a[1] > b[1]
    \/ a[1] = b[1] /\ a[2] > b[2]
    \/ a[1] = b[1] /\ a[2] = b[2] /\ a[3] > b[3]

\* C17: the table lists every manager of the standings once, descending by
\* the total of the selected view, then by live gameweek points, then by
\* career total; managers equal on the three keep their order of the standings
C17_RankingOrder ==
    pc = "shown" =>
      /\ Len(Rows) = Len(standings[1])
      /\ { Rows[k].entry : k \in 1..Len(Rows) }
           = { standings[1][k].entry : k \in 1..Len(standings[1]) }
      /\ \A i, j \in 1..Len(Rows) :
           i < j =>
             \/ KeyGreater(SortKey(Rows[i]), SortKey(Rows[j]))
             \/ /\ SortKey(Rows[i]) = SortKey(Rows[j])
                /\ InputIndex(Rows[i].entry) < InputIndex(Rows[j].entry)

\* a table in which two managers are equal on the three keys and a third one
\* has their period total with fewer live points and a higher career total
C17_Witness ==
    /\ pc = "shown"
    /\ currentView = "monthly"
    /\ Len(Rows) = 3
    /\ SortKey(Rows[1]) = SortKey(Rows[2])
    /\ Rows[3].monthlyPoints = Rows[2].monthlyPoints
    /\ Rows[3].gameweekPoints < Rows[2].gameweekPoints
    /\ Rows[3].total > Rows[2].total

\* row s is ranked before row r by the period totals without the current
\* gameweek: more points, then the higher career total, then the standings
BeforePreviously(s, r) ==
    \/ s.previousMonthlyPoints > r.previousMonthlyPoints
    \/ /\ s.previousMonthlyPoints = r.previousMonthlyPoints
       /\ \/ s.total > r.total
          \/ s.total = r.total /\ InputIndex(s.entry) < InputIndex(r.entry)

\* row s is ranked before row r by the full period totals: more points, then
\* more live points, then the higher career total, then the standings
BeforeCurrently(s, r) ==
    \/ KeyGreater(<< s.monthlyPoints, s.gameweekPoints, s.total >>,
                  << r.monthlyPoints, r.gameweekPoints, r.total >>)
    \/ /\ << s.monthlyPoints, s.gameweekPoints, s.total >>
            = << r.monthlyPoints, r.gameweekPoints, r.total >>
       /\ InputIndex(s.entry) < InputIndex(r.entry)

RankPreviously(r) ==
    1 + Cardinality({ k \in 1..Len(Rows) : BeforePreviously(Rows[k], r) })

RankCurrently(r) ==
    1 + Cardinality({ k \in 1..Len(Rows) : BeforeCurrently(Rows[k], r) })

\* C18: the rank delta of a manager is his rank by the period totals without
\* the current gameweek minus his rank by the full period totals; it is
\* positive exactly when his rank number went down, i.e. he moved up
C18_RankDelta ==
    pc = "shown" =>
      \A k \in 1..Len(Rows) :
        /\ Rows[k].positionChange
             = RankPreviously(Rows[k]) - RankCurrently(Rows[k])
        /\ Rows[k].positionChange > 0
             <=> RankCurrently(Rows[k]) < RankPreviously(Rows[k])
        /\ Rows[k].positionChange = 0
             <=> RankCurrently(Rows[k]) = RankPreviously(Rows[k])

\* a table in which the live gameweek moved one manager up and another down
C18_Witness ==
    /\ pc = "shown"
    /\ currentGameweek \in Period
    /\ \E i, j \in 1..Len(Rows) :
         /\ Rows[i].positionChange > 0
         /\ Rows[i].previousMonthlyPoints < Rows[j].previousMonthlyPoints
         /\ Rows[i].monthlyPoints > Rows[j].monthlyPoints
         /\ Rows[j].positionChange < 0

\* C19: calculateScores never runs while a fetchManagerData call is filling
\* this.managerData: a step that renders the table leaves no call in flight
C19_NoRenderDuringFetch == [][scores' # scores => fetches' = << >>]_vars

\* a request has failed in this step: a call has one request less to wait
\* for, or is over, and this.managerData is as it was
RequestFailed ==
    /\ fetches # << >>
    /\ fetches' # fetches
    /\ Len(fetches') <= Len(fetches)
    /\ managerData' = managerData

\* C20: a manager of the standings without data has a row of 0 points, 0
\* played and no captain in the table, next to the rows of the managers with
\* data; when a request fails the other requests of the batch stay pending,
\* and after the last one the caller renders the table
C20_MissingDataZeroed ==
    /\ [](pc = "shown" =>
            /\ { Rows[k].entry : k \in 1..Len(Rows) }
                 = { standings[1][k].entry : k \in 1..Len(standings[1]) }
            /\ \A k \in 1..Len(Rows) :
                 IF Rows[k].entry \in DOMAIN managerData
                 THEN /\ Rows[k].picks = Some(managerData[Rows[k].entry].picks)
                      /\ Rows[k].playedPlayers = 11
                      /\ Rows[k].gameweekPoints > 0
                 ELSE /\ Rows[k].gameweekPoints = 0
                      /\ Rows[k].monthlyPoints = 0
                      /\ Rows[k].livePoints = 0
                      /\ Rows[k].playedPlayers = 0
                      /\ Rows[k].captain = Undefined
                      /\ Rows[k].picks = Undefined)
    /\ [][RequestFailed =>
            IF Len(fetches') = Len(fetches)
            THEN \E k \in 1..Len(fetches) :
                   /\ fetches'[k].pending # {}
                   /\ fetches'[k].pending \subseteq fetches[k].pending
                   /\ Cardinality(fetches[k].pending \ fetches'[k].pending) = 1
            ELSE /\ pc' = "shown"
                 /\ IsDefined(scores')
                 /\ Len(scores'[1]) = Len(standings'[1])]_vars

\* a table with the zeroed row of a manager whose request failed between the
\* rows of two managers whose requests succeeded
C20_Witness ==
    /\ pc = "shown"
    /\ Len(Rows) = 3
    /\ standings[1][2].entry \notin DOMAIN managerData
    /\ standings[1][1].entry \in DOMAIN managerData
    /\ standings[1][3].entry \in DOMAIN managerData
    /\ Rows[3].entry = standings[1][2].entry
    /\ Rows[3].playedPlayers = 0
    /\ Rows[1].gameweekPoints > 0
    /\ Rows[2].gameweekPoints > 0

----------------------------------------------------------------------------
(* Incomplete snapshots, chips and the played count *)

\* the roster positions whose player is not in the live data, or whose team
\* has no fixture in the current gameweek
MissingPositions ==
    { i \in 1..Len(Roster) :
        \/ Roster[i].element \notin DOMAIN liveData[1]
        \/ ~\E k \in 1..Len(fixtures[1]) :
              /\ fixtures[1][k].event = currentGameweek
              /\ PlayerOf(Roster[i].element).team
                   \in {fixtures[1][k].team_h, fixtures[1][k].team_a} }

\* the counting slots whose player is in the live data with minutes > 0
PlayedPresentSlots ==
    { i \in 1..Len(Roster) \ MissingPositions :
        /\ IsActive(picks[1], autoSubs, i)
        /\ liveData[1][Roster[i].element].minutes > 0 }

\* C21: with players missing from the live data or without a fixture, scoring
\* and resolution return their results; the missing players add nothing to
\* the played count or to the total, their rows show 0 minutes and 0 points,
\* and a starter without a fixture is not the player-out of a substitution
C21_MissingPlayersCountNothing ==
    Resolved =>
      /\ IsDefined(liveInfo)
      /\ liveInfo[1].played = Cardinality(PlayedPresentSlots)
      /\ liveInfo[1].livePoints =
           SumOver([ i \in PlayedPresentSlots |->
                       PointsOf(provisionalBonus, Roster[i].element)
                         * Roster[i].multiplier ], PlayedPresentSlots)
      /\ \A i \in StartingSlots :
           (~\E k \in 1..Len(fixtures[1]) :
               /\ fixtures[1][k].event = currentGameweek
               /\ PlayerOf(Roster[i].element).team
                    \in {fixtures[1][k].team_h, fixtures[1][k].team_a})
             => Roster[i].element \notin SubbedOut(autoSubs)
      /\ IsDefined(details) =>
           \A i \in MissingPositions :
             /\ AllDetails[i].minutes = 0
             /\ AllDetails[i].points = 0

\* a scored roster with a starter missing from the live data who was replaced,
\* a starter without a fixture who was not, and a missing bench player
C21_Witness ==
    /\ Resolved
    /\ IsDefined(details)
    /\ Len(autoSubs) > 0
    /\ \E i \in StartingSlots \cap MissingPositions :
         Roster[i].element \in SubbedOut(autoSubs)
    /\ \E i \in StartingSlots :
         /\ PlayerOf(Roster[i].element).team = Team.blank
         /\ Roster[i].element \notin SubbedOut(autoSubs)
    /\ liveInfo[1].livePoints > 0

\* the chips that are said not to change the scoring
PlainChips == {"none", "freehit", "wildcard", "3xc"}

\* the roster of the snapshot with another active chip
WithChip(c) == [picks[1] EXCEPT !.active_chip = c]

\* the fields of a ScoredRoster in the value of calculateLiveInfo
ScoredFields(info) ==
    << info.played, info.maxPlayers, info.captainName, info.captainPlayed,
       info.livePoints >>

\* C22: with the slots, the multipliers, the upstream list, the live stats and
\* the fixtures fixed, the substitutions, the counting slots and the totals
\* are the same under no chip, free-hit, wildcard and triple-captain; under
\* bench-boost the bench slots count in addition
C22_PlainChipsScoreAlike ==
    (Resolved /\ picks[1].active_chip \in PlainChips) =>
      /\ \A c \in PlainChips \ {picks[1].active_chip} :
           /\ calculateLocalAutoSubs(Some(WithChip(c))) = autoSubs
           /\ ScoredFields(LiveInfoFrom(WithChip(c), provisionalBonus, autoSubs))
                = ScoredFields(liveInfo[1])
           /\ \A i \in 1..Len(Roster) :
                IsActive(WithChip(c), autoSubs, i) <=> IsActive(picks[1], autoSubs, i)
      /\ \A i \in 1..Len(Roster) :
           IsActive(WithChip("bboost"), autoSubs, i)
             <=> (IsActive(picks[1], autoSubs, i) \/ i > StartingSize)

\* a roster scored under free-hit with a substitution, a captain who played
\* and a bench player who played but does not count
C22_Witness ==
    /\ Resolved
    /\ picks[1].active_chip = "freehit"
    /\ Len(autoSubs) > 0
    /\ liveInfo[1].captainPlayed
    /\ liveInfo[1].livePoints > 0
    /\ \E i \in BenchPositions(picks[1]) :
         /\ ~IsActive(picks[1], autoSubs, i)
         /\ MinutesOf(Roster[i].element) > 0

\* the starting positions whose player is the player-out of a substitution
PositionsOut ==
    { i \in StartingSlots :
        \E k \in 1..Len(autoSubs) : autoSubs[k].element_out = Roster[i].element }

\* the bench positions whose player is the player-in of a substitution
PositionsIn ==
    { i \in BenchSlots :
        \E k \in 1..Len(autoSubs) : autoSubs[k].element_in = Roster[i].element }

\* the slots that count: every slot under bench-boost, else the starters that
\* stayed and the bench players that came on
SlotsThatCount ==
    IF picks[1].active_chip = "bboost" THEN Slots \ PositionsOut
    ELSE (StartingSlots \ PositionsOut) \cup PositionsIn

\* C29: the played count never exceeds the maximum of countable players: 11
\* without bench-boost, where every substitution takes one starter out for the
\* one bench player it brings on, and 15 with it
C29_PlayedWithinMaximum ==
    Resolved =>
      /\ liveInfo[1].maxPlayers
           = Some(IF picks[1].active_chip = "bboost" THEN 15 ELSE StartingSize)
      /\ liveInfo[1].played <= liveInfo[1].maxPlayers[1]
      /\ liveInfo[1].played <= Cardinality(SlotsThatCount)
      /\ Cardinality(SlotsThatCount) <= liveInfo[1].maxPlayers[1]
      /\ picks[1].active_chip # "bboost" =>
           /\ Cardinality(PositionsOut) = Len(autoSubs)
           /\ Cardinality(PositionsIn) = Len(autoSubs)
           /\ Cardinality(SlotsThatCount) = StartingSize

\* a roster without bench-boost, two substitutions confirmed, all 11 counting
\* slots played and a bench player who played is left out
C29_Witness ==
    /\ Resolved
    /\ picks[1].active_chip # "bboost"
    /\ Len(autoSubs) = 2
    /\ liveInfo[1].played = StartingSize
    /\ \E i \in BenchSlots \ PositionsIn : MinutesOf(Roster[i].element) > 0

\* the bench positions that could still replace the starter at position i: not
\* brought on before, of a matching goalkeeper or outfield role, and either
\* with minutes or with a fixture that is not over
OpenCandidates(i) ==
    { j \in BenchPositions(picks[1]) :
        /\ Roster[j].element \notin { autoSubs[q].element_in : q \in SubsBefore(i) }
        /\ (TypeOf(Roster[j].element) = RoleGK) <=> (TypeOf(Roster[i].element) = RoleGK)
        /\ ~(/\ liveData[1][Roster[j].element].minutes = 0
             /\ PlayerOf(Roster[j].element).team \in TeamsFinished) }

\* C30: a starter who needs a substitution while every bench player is used,
\* of the wrong role or did not play has no substitution: he keeps his
\* starting slot, which counts with 0 effective points
C30_NoCandidateKeepsSlot ==
    LocallyResolved =>
      \A i \in NeedyStarters :
        OpenCandidates(i) = {} =>
          /\ Roster[i].element \notin SubbedOut(autoSubs)
          /\ IsDefined(details) =>
               /\ AllDetails[i].pointsCount
               /\ AllDetails[i].effectivePoints = 0

\* C28: the current positions of the rows are a permutation of 1..N and so
\* are the previous positions, hence the position changes sum to zero; in the
\* monthly view the rank shown for a row, its index + 1, is its current
\* position
C28_PositionsArePermutations ==
    pc = "shown" =>
      /\ { Rows[k].currentPosition : k \in 1..Len(Rows) } = 1..Len(Rows)
      /\ { Rows[k].previousPosition : k \in 1..Len(Rows) } = 1..Len(Rows)
      /\ SumOver([ k \in 1..Len(Rows) |-> Rows[k].positionChange ],
                 1..Len(Rows)) = 0
      /\ currentView = "monthly" =>
           \A k \in 1..Len(Rows) : Rows[k].currentPosition = k

\* a table in the monthly view in which two managers have the same period
\* total and positions changed
C28_Witness ==
    /\ pc = "shown"
    /\ currentView = "monthly"
    /\ Len(Rows) = 3
    /\ \E i, j \in 1..Len(Rows) :
         /\ i # j
         /\ Rows[i].monthlyPoints = Rows[j].monthlyPoints
         /\ Rows[i].gameweekPoints # Rows[j].gameweekPoints
    /\ \E k \in 1..Len(Rows) : Rows[k].positionChange # 0

----------------------------------------------------------------------------
(* The auto-refresh timer *)

----------------------------------------------------------------------------
(* Overlapping refreshes and the gameweek of the data in use *)

\* the invocations that returned without an error
Completed == { d \in done : d.ok }

\* C24: when two refresh invocations overlapped and both have completed, no
\* invocation being in flight or started since, liveData, standings,
\* managerData and the rendered leaderboard are those the later-started one
\* fetched
C24_LaterRefreshSupersedes ==
    \A a, b \in Completed :
      ( /\ a.kind = "refresh" /\ b.kind = "refresh"
        /\ a.id \in b.overlapped
        /\ b.id = started
        /\ calls = << >> )
      => /\ liveData[1].by = b.id
         /\ standings[1].by = b.id
         /\ \A e \in DOMAIN managerData : managerData[e].by = b.id
         /\ scores = Some(Rendered(liveData, standings, managerData))

\* C25: when every invocation so far has completed without an error and
\* without overlapping another one, the live data and the picks of every
\* manager are those of one gameweek, which is currentGameweek
C25_OneGameweekInUse ==
    ( /\ calls = << >>
      /\ done # {}
      /\ \A d \in done : d.ok /\ d.overlapped = {} )
    => /\ liveData[1].gameweek = currentGameweek
       /\ \A e \in DOMAIN managerData :
            managerData[e].gameweek = currentGameweek

----------------------------------------------------------------------------
(* The request cache *)

\* a call of fetchWithCache returns in this step
Returns == returned' # returned

\* a call returns the cached value, and no request is made, only when the
\* entry is younger than the ttl; a request is made only when there is no
\* such entry; its result is stored with the time the call began; a failure
\* leaves the cache alone
FetchWithCacheContract ==
    /\ Returns /\ returned'[1].from = "cache"
         => /\ returned'[1].key \in DOMAIN cache
            /\ clock - cache[returned'[1].key].timestamp
                 < TtlOf(returned'[1].key)
            /\ returned'[1].data = cache[returned'[1].key].data
            /\ requests' = requests
            /\ cache' = cache
    /\ Returns /\ returned'[1].from = "upstream"
         => \E q \in requests \ requests' :
              /\ q.id = returned'[1].id
              /\ q.key = returned'[1].key
              /\ cache' = CacheSet(cache, q.key, returned'[1].data, q.now)
    /\ Returns /\ returned'[1].from = "error"
         => /\ requests' # requests
            /\ cache' = cache
    /\ \A q \in requests' \ requests :
         /\ q.now = clock
         /\ ~( /\ q.key \in DOMAIN cache'
               /\ clock - cache'[q.key].timestamp < TtlOf(q.key) )

\* the first read of a key that refresh deleted is not served by the cache
DeletedKeysReadUpstream ==
    Returns /\ returned'[1].from = "cache" => returned'[1].key \notin unread

\* C26: fetchWithCache returns the cached value without a request exactly
\* when an entry younger than the ttl exists, otherwise it fetches and stores
\* the result with the time the call began; a failure leaves the cache
\* unchanged; the next read of a key that refresh deleted goes upstream
C26_CacheContract ==
    [][FetchWithCacheContract /\ DeletedKeysReadUpstream]_vars

----------------------------------------------------------------------------
(* The batches of fetchManagerData *)

\* C23: at most MAX_CONCURRENT_REQUESTS requests are in flight at once, and
\* while fetchManagerData runs, requests start only when no request made
\* before is still in flight
C23_BoundedBatches ==
    [][ /\ Cardinality(requests') <= MAX_CONCURRENT_REQUESTS
        /\ ( calls # << >> /\ requests' \ requests # {} )
             => requests' \cap requests = {} ]_vars

====
